---- MODULE Spec2Model ----
(***************************************************************************)
(* The EVM message-frame interpreter of metaru: the dispatch loop          *)
(* execute_message and its opcode handlers, in the optimized variant       *)
(* (direct stack writes, src/unnamed/part_001) and in the jump-table       *)
(* variant (pop / compute / push, src/src/evm_jumptable.cpp).              *)
(*                                                                         *)
(* Representation.  A stack word is the sequence of its 32 bytes, most     *)
(* significant first (C index i is TLA+ index i + 1).  A uint64_t is the    *)
(* sequence of its 8 base-256 digits, most significant first, so that      *)
(* arithmetic wraps modulo 2^64 exactly as the C++ does; a uint32_t cast   *)
(* keeps the last four digits.  The stack plane is modelled by its live    *)
(* part, slots 0 .. stack_size - 1; the memory plane by the bytes that     *)
(* have been given a value (every other byte below memory_size is zero).   *)
(***************************************************************************)
EXTENDS Integers, Sequences, FiniteSets, TLC

\* ------------------------------------------------------------------------
\* Program constants

WORD_SIZE == 32

STACK_LIMIT == 1024

\* 1024 * 1024, the ceiling of ensure_memory
MEMORY_LIMIT == 1048576

\* size_t memory_size = 1024 in the block demo's FrameMemory
DEMO_MEMORY_PLANE == 1024

\* MessageFrameState
NOT_STARTED == 0
EXECUTING == 1
SUSPENDED == 2
EXCEPTIONAL_HALT == 4
REVERT == 5
COMPLETED_SUCCESS == 7

\* ExceptionalHaltReason
NONE == 0
INSUFFICIENT_GAS == 1
INVALID_OPERATION == 2
INVALID_JUMP_DESTINATION == 3
STACK_UNDERFLOW == 4
ILLEGAL_STATE_CHANGE == 6

\* the gas floor tested at the head of the loop
GAS_FLOOR == 3

\* ------------------------------------------------------------------------
\* Bytes and words

Byte == 0..255

ZeroBytes(n) == [i \in 1..n |-> 0]

ZeroWord == ZeroBytes(WORD_SIZE)

\* the k-th least significant digit (k = 0 ..) of a big-endian digit sequence
Digit(a, k) == a[Len(a) - k]

\* the digits of a natural number n < 256^len, most significant first
RECURSIVE IntToDigits(_, _)
IntToDigits(n, len) ==
    IF len = 0 THEN <<>> ELSE Append(IntToDigits(n \div 256, len - 1), n % 256)

\* a small non-negative integer as a uint64_t
IntToU64(n) == IntToDigits(n, 8)

\* a + b modulo 2^64
U64Add(a, b) ==
    LET c[k \in 0..8] ==
            IF k = 0 THEN 0
            ELSE (Digit(a, k - 1) + Digit(b, k - 1) + c[k - 1]) \div 256
    IN  [i \in 1..8 |-> (Digit(a, 8 - i) + Digit(b, 8 - i) + c[8 - i]) % 256]

\* a - b modulo 256^Len(a), for digit sequences of equal length
BigSub(a, b) ==
    LET n == Len(a)
        br[k \in 0..n] ==
            IF k = 0 THEN 0
            ELSE IF Digit(a, k - 1) - Digit(b, k - 1) - br[k - 1] < 0 THEN 1 ELSE 0
    IN  [i \in 1..n |->
            (Digit(a, n - i) - Digit(b, n - i) - br[n - i] + 256) % 256]

U64Sub(a, b) == BigSub(a, b)

\* a * b modulo 2^64
U64Mul(a, b) ==
    LET prod[k \in 0..7, i \in 0..8] ==
            \* sum of Digit(a, j) * Digit(b, k - j) for j < i
            IF i = 0 THEN 0
            ELSE prod[k, i - 1]
                 + (IF i - 1 <= k THEN Digit(a, i - 1) * Digit(b, k - (i - 1)) ELSE 0)
        col[k \in 0..7] ==
            prod[k, 8] + (IF k = 0 THEN 0 ELSE col[k - 1] \div 256)
    IN  [i \in 1..8 |-> col[8 - i] % 256]

\* a >= b as unsigned numbers, for digit sequences of equal length
RECURSIVE BigGeqFrom(_, _, _)
BigGeqFrom(a, b, i) ==
    IF i > Len(a) THEN TRUE
    ELSE IF a[i] # b[i] THEN a[i] > b[i]
    ELSE BigGeqFrom(a, b, i + 1)

BigGeq(a, b) == BigGeqFrom(a, b, 1)

U64Lt(a, b) == ~BigGeq(a, b)

U64Gt(a, b) == ~BigGeq(b, a)

U64IsZero(a) == \A i \in 1..8 : a[i] = 0

\* b * q as 9 digits, for a uint64_t b and a digit q
MulSmall(b, q) ==
    LET c[k \in 0..8] ==
            IF k = 0 THEN 0 ELSE (Digit(b, k - 1) * q + c[k - 1]) \div 256
    IN  [i \in 1..9 |->
            IF i = 1 THEN c[8] ELSE (Digit(b, 9 - i) * q + c[9 - i]) % 256]

\* long division in base 256: the quotient and remainder of a / b, b # 0
RECURSIVE DivModFrom(_, _, _, _, _)
DivModFrom(a, b, i, q, r) ==
    IF i > 8 THEN [quot |-> q, rem |-> r]
    ELSE LET r9 == Append(r, a[i])
             d == CHOOSE x \in Byte :
                     /\ BigGeq(r9, MulSmall(b, x))
                     /\ (x = 255 \/ ~BigGeq(r9, MulSmall(b, x + 1)))
             rest == BigSub(r9, MulSmall(b, d))
         IN  DivModFrom(a, b, i + 1, Append(q, d), SubSeq(rest, 2, 9))

\* val_b == 0 ? 0 : val_a / val_b
U64Div(a, b) ==
    IF U64IsZero(b) THEN ZeroBytes(8)
    ELSE DivModFrom(a, b, 1, <<>>, ZeroBytes(8)).quot

\* val_b == 0 ? 0 : val_a % val_b
U64Mod(a, b) ==
    IF U64IsZero(b) THEN ZeroBytes(8)
    ELSE DivModFrom(a, b, 1, <<>>, ZeroBytes(8)).rem

RECURSIVE BitAnd(_, _)
BitAnd(x, y) ==
    IF x = 0 \/ y = 0 THEN 0
    ELSE (x % 2) * (y % 2) + 2 * BitAnd(x \div 2, y \div 2)

\* x | y and x ^ y on bytes, from x & y
BitOr(x, y) == x + y - BitAnd(x, y)

BitXor(x, y) == x + y - 2 * BitAnd(x, y)

\* ~x on a uint8_t
BitNot(x) == 255 - x

word_to_u64(word) == SubSeq(word, 25, 32)

u64_to_word(value) == ZeroBytes(24) \o value

is_zero(word) == \A i \in 1..WORD_SIZE : word[i] = 0

\* the word holding the small non-negative integer n
W(n) == u64_to_word(IntToU64(n))

\* ------------------------------------------------------------------------
\* The execution context and the stack helpers (optimized variant)
\*
\* ctx.frame is the control block; ctx.stack, ctx.memory, ctx.storage and
\* ctx.code are the planes behind stack_base, memory_base, storage_base and
\* code.  Three fields are bookkeeping of the model: ctx.wr collects the
\* stack slot indices a handler writes, ctx.ub records that a handler touched
\* memory outside [0, memory_size), and ctx.wild is the word such a read
\* returns.

\* a null pointer returned by a helper
nullptr == -1

\* what a slot above the top of the stack holds until a handler fills it
StaleWord == [i \in 1..WORD_SIZE |-> 165]

OpResult(ctx, pc_increment, gas_cost) ==
    [ctx |-> ctx, pc_increment |-> pc_increment, gas_cost |-> gas_cost]

\* the slot index a pointer returned by stack_top / stack_alloc refers to
stack_top(ctx, offset) ==
    IF offset >= ctx.frame.stack_size THEN nullptr
    ELSE ctx.frame.stack_size - 1 - offset

\* the word behind a stack pointer
Deref(ctx, item) == ctx.stack[item + 1]

\* a 32-byte write through a stack pointer
Store(ctx, item, word) ==
    [ctx EXCEPT !.stack = [@ EXCEPT ![item + 1] = word], !.wr = @ \cup {item}]

stack_alloc_off_by_one(ctx) ==
    IF ctx.frame.stack_size > STACK_LIMIT THEN [ctx |-> ctx, item |-> nullptr]
    ELSE [ctx |-> [ctx EXCEPT !.frame.stack_size = @ + 1,
                              !.stack = Append(@, StaleWord)],
          item |-> ctx.frame.stack_size]

\* the new top slot, or nullptr when the stack is full
stack_alloc(ctx) ==
    IF ctx.frame.stack_size >= STACK_LIMIT THEN [ctx |-> ctx, item |-> nullptr]
    ELSE [ctx |-> [ctx EXCEPT !.frame.stack_size = @ + 1,
                              !.stack = Append(@, StaleWord)],
          item |-> ctx.frame.stack_size]

\* the value stack_free returns
stack_free_ok(ctx, count) == ctx.frame.stack_size >= count

\* the context stack_free leaves
stack_free(ctx, count) ==
    IF ctx.frame.stack_size < count THEN ctx
    ELSE [ctx EXCEPT !.frame.stack_size = @ - count,
                     !.stack = SubSeq(@, 1, ctx.frame.stack_size - count)]

\* ------------------------------------------------------------------------
\* uint32_t values: (uint32_t)word_to_u64(word) is the last four bytes

U32(word) == SubSeq(word, 29, 32)

\* the low 24 bits of a uint32_t
U32Lo(d) == d[2] * 65536 + d[3] * 256 + d[4]

\* d >= n for a uint32_t d and an integer 0 <= n < 2^24
U32GeqInt(d, n) == d[1] > 0 \/ U32Lo(d) >= n

\* ------------------------------------------------------------------------
\* Memory helpers

MemRead(memory, a) == IF a \in DOMAIN memory THEN memory[a] ELSE 0

\* memset(memory_base + from, 0, to - from)
MemZero(memory, from, to) ==
    [a \in DOMAIN memory |-> IF a >= from /\ a < to THEN 0 ELSE memory[a]]

\* memcpy(memory_base + offset, bytes, Len(bytes))
MemWrite(memory, offset, bytes) ==
    [a \in DOMAIN memory \cup offset..(offset + Len(bytes) - 1) |->
        IF a >= offset /\ a < offset + Len(bytes) THEN bytes[a - offset + 1]
        ELSE memory[a]]

ensure_memory_no_fill(ctx, d, size) ==
    LET rounded == ((U32Lo(d) + size + 31) \div 32) * 32
    IN  IF d[1] > 0 \/ rounded > MEMORY_LIMIT THEN [ok |-> FALSE, ctx |-> ctx]
        ELSE IF rounded > ctx.frame.memory_size
        THEN [ok |-> TRUE, ctx |-> [ctx EXCEPT !.frame.memory_size = rounded]]
        ELSE [ok |-> TRUE, ctx |-> ctx]

\* ensure_memory on a uint32_t offset d and a size in 1..32.  required is
\* d[1] * 2^24 + U32Lo(d) + size as a uint64_t; new_size is the rounded value
\* cut to 32 bits, hi * 2^24 + lo below.
ensure_memory(ctx, d, size) ==
    LET memory_size == ctx.frame.memory_size
        exceeds == d[1] > 0 \/ U32Lo(d) + size > memory_size
        rounded == ((U32Lo(d) + size + 31) \div 32) * 32
        hi == (d[1] + rounded \div 16777216) % 256
        lo == rounded % 16777216
    IN  IF size = 0 THEN [ok |-> TRUE, ctx |-> ctx]
        ELSE IF ~exceeds THEN [ok |-> TRUE, ctx |-> ctx]
        ELSE IF hi > 0 \/ lo > MEMORY_LIMIT THEN [ok |-> FALSE, ctx |-> ctx]
        ELSE IF lo > memory_size
             THEN [ok |-> TRUE,
                   ctx |-> [ctx EXCEPT !.memory = MemZero(@, memory_size, lo),
                                       !.frame.memory_size = lo]]
        ELSE [ok |-> TRUE, ctx |-> ctx]

\* [offset, offset + size) lies inside [0, memory_size)
InMemory(ctx, d, size) == d[1] = 0 /\ U32Lo(d) + size <= ctx.frame.memory_size

\* ------------------------------------------------------------------------
\* Storage plane API (storage::find, storage::add); entries are indexed from 0

\* a lookup that stops one entry short of count
find_short(entries, count, address, key) ==
    LET hits == {i \in 0..(count - 2) :
                    entries[i + 1].address = address /\ entries[i + 1].key = key}
    IN  IF hits = {} THEN nullptr
        ELSE CHOOSE i \in hits : \A j \in hits : i <= j

find(entries, count, address, key) ==
    LET hits == {i \in 0..(count - 1) :
                    entries[i + 1].address = address /\ entries[i + 1].key = key}
    IN  IF hits = {} THEN nullptr
        ELSE CHOOSE i \in hits : \A j \in hits : i <= j

\* the appended entry's index and the plane and count storage::add leaves
add(entries, count, max_slots, address, key) ==
    IF count >= max_slots
    THEN [entry |-> nullptr, entries |-> entries, count |-> count]
    ELSE [entry |-> count,
          entries |-> SubSeq(entries, 1, count) \o
                      <<[address |-> address, key |-> key, value |-> ZeroWord,
                         original |-> ZeroWord, is_warm |-> 0]>>,
          count |-> count + 1]

\* ------------------------------------------------------------------------
\* Optimized operation handlers (direct stack writes)

\* a STOP that asks the loop to step over it
op_stop_advancing(ctx) ==
    OpResult([ctx EXCEPT !.frame.state = COMPLETED_SUCCESS], 1, 0)

op_stop(ctx) ==
    OpResult([ctx EXCEPT !.frame.state = COMPLETED_SUCCESS], 0, 0)

\* the shape shared by the two-operand handlers: write f(a, b) over b, pop a
BinaryInPlace(ctx, F(_, _), gas_cost) ==
    LET a == stack_top(ctx, 0)
        b == stack_top(ctx, 1)
    IN  IF a = nullptr \/ b = nullptr THEN OpResult(ctx, -1, 0)
        ELSE OpResult(stack_free(Store(ctx, b, F(Deref(ctx, a), Deref(ctx, b))), 1),
                      1, gas_cost)

op_add(ctx) ==
    LET F(a, b) == u64_to_word(U64Add(word_to_u64(a), word_to_u64(b)))
    IN  BinaryInPlace(ctx, F, 3)

op_mul(ctx) ==
    LET F(a, b) == u64_to_word(U64Mul(word_to_u64(a), word_to_u64(b)))
    IN  BinaryInPlace(ctx, F, 5)

\* the subtraction with its operands exchanged
op_sub_swapped(ctx) ==
    LET F(a, b) == u64_to_word(U64Sub(word_to_u64(b), word_to_u64(a)))
    IN  BinaryInPlace(ctx, F, 3)

op_sub(ctx) ==
    LET F(a, b) == u64_to_word(U64Sub(word_to_u64(a), word_to_u64(b)))
    IN  BinaryInPlace(ctx, F, 3)

op_div(ctx) ==
    LET F(a, b) == u64_to_word(U64Div(word_to_u64(a), word_to_u64(b)))
    IN  BinaryInPlace(ctx, F, 5)

op_mod(ctx) ==
    LET F(a, b) == u64_to_word(U64Mod(word_to_u64(a), word_to_u64(b)))
    IN  BinaryInPlace(ctx, F, 5)

op_lt(ctx) ==
    LET F(a, b) == W(IF U64Lt(word_to_u64(a), word_to_u64(b)) THEN 1 ELSE 0)
    IN  BinaryInPlace(ctx, F, 3)

op_gt(ctx) ==
    LET F(a, b) == W(IF U64Gt(word_to_u64(a), word_to_u64(b)) THEN 1 ELSE 0)
    IN  BinaryInPlace(ctx, F, 3)

op_eq(ctx) ==
    LET F(a, b) == W(IF a = b THEN 1 ELSE 0)
    IN  BinaryInPlace(ctx, F, 3)

op_iszero(ctx) ==
    LET a == stack_top(ctx, 0)
    IN  IF a = nullptr THEN OpResult(ctx, -1, 0)
        ELSE OpResult(Store(ctx, a, W(IF is_zero(Deref(ctx, a)) THEN 1 ELSE 0)), 1, 3)

op_and(ctx) ==
    LET F(a, b) == [i \in 1..WORD_SIZE |-> BitAnd(b[i], a[i])]
    IN  BinaryInPlace(ctx, F, 3)

op_or(ctx) ==
    LET F(a, b) == [i \in 1..WORD_SIZE |-> BitOr(b[i], a[i])]
    IN  BinaryInPlace(ctx, F, 3)

op_xor(ctx) ==
    LET F(a, b) == [i \in 1..WORD_SIZE |-> BitXor(b[i], a[i])]
    IN  BinaryInPlace(ctx, F, 3)

op_not(ctx) ==
    LET a == stack_top(ctx, 0)
    IN  IF a = nullptr THEN OpResult(ctx, -1, 0)
        ELSE OpResult(Store(ctx, a, [i \in 1..WORD_SIZE |-> BitNot(Deref(ctx, a)[i])]),
                      1, 3)

op_pop(ctx) ==
    IF ~stack_free_ok(ctx, 1) THEN OpResult(ctx, -1, 0)
    ELSE OpResult(stack_free(ctx, 1), 1, 2)

op_mload(ctx) ==
    LET offset_word == stack_top(ctx, 0)
        offset == U32(Deref(ctx, offset_word))
        em == ensure_memory(ctx, offset, 32)
        c == em.ctx
    IN  IF offset_word = nullptr THEN OpResult(ctx, -1, 0)
        ELSE IF ~em.ok THEN OpResult(c, -1, 0)
        ELSE IF InMemory(c, offset, 32)
        THEN OpResult(Store(c, offset_word,
                            [i \in 1..WORD_SIZE |->
                                MemRead(c.memory, U32Lo(offset) + i - 1)]),
                      1, 3)
        ELSE OpResult(Store([c EXCEPT !.ub = TRUE], offset_word, c.wild), 1, 3)

op_mstore(ctx) ==
    LET offset_word == stack_top(ctx, 0)
        value == stack_top(ctx, 1)
        offset == U32(Deref(ctx, offset_word))
        em == ensure_memory(ctx, offset, 32)
        c == em.ctx
    IN  IF offset_word = nullptr \/ value = nullptr THEN OpResult(ctx, -1, 0)
        ELSE IF ~em.ok THEN OpResult(c, -1, 0)
        ELSE IF InMemory(c, offset, 32)
        THEN OpResult(stack_free([c EXCEPT !.memory =
                                     MemWrite(@, U32Lo(offset), Deref(ctx, value))], 2),
                      1, 3)
        ELSE OpResult(stack_free([c EXCEPT !.ub = TRUE], 2), 1, 3)

op_mstore8(ctx) ==
    LET offset_word == stack_top(ctx, 0)
        value_word == stack_top(ctx, 1)
        offset == U32(Deref(ctx, offset_word))
        em == ensure_memory(ctx, offset, 1)
        c == em.ctx
    IN  IF offset_word = nullptr \/ value_word = nullptr THEN OpResult(ctx, -1, 0)
        ELSE IF ~em.ok THEN OpResult(c, -1, 0)
        ELSE IF InMemory(c, offset, 1)
        THEN OpResult(stack_free([c EXCEPT !.memory =
                                     MemWrite(@, U32Lo(offset),
                                              <<Deref(ctx, value_word)[32]>>)], 2),
                      1, 3)
        ELSE OpResult(stack_free([c EXCEPT !.ub = TRUE], 2), 1, 3)

op_sload(ctx) ==
    LET key_word == stack_top(ctx, 0)
        address == ctx.frame.contract
        entry == find(ctx.storage, ctx.frame.storage_slot_count, address,
                      Deref(ctx, key_word))
    IN  IF key_word = nullptr THEN OpResult(ctx, -1, 0)
        ELSE IF entry # nullptr
        THEN LET e == ctx.storage[entry + 1]
                 gas_cost == IF e.is_warm # 0 THEN 100 ELSE 2100
                 c == Store(ctx, key_word, e.value)
             IN  OpResult([c EXCEPT !.storage[entry + 1].is_warm = 1], 1, gas_cost)
        ELSE OpResult(Store(ctx, key_word, ZeroWord), 1, 2100)

op_sstore(ctx) ==
    LET key_word == stack_top(ctx, 0)
        value_word == stack_top(ctx, 1)
        address == ctx.frame.contract
        entry == find(ctx.storage, ctx.frame.storage_slot_count, address,
                      Deref(ctx, key_word))
    IN  IF ctx.frame.is_static # 0
        THEN OpResult([ctx EXCEPT !.frame.state = EXCEPTIONAL_HALT,
                                  !.frame.halt_reason = ILLEGAL_STATE_CHANGE], -1, 0)
        ELSE IF key_word = nullptr \/ value_word = nullptr THEN OpResult(ctx, -1, 0)
        ELSE IF entry # nullptr
        THEN LET e == ctx.storage[entry + 1]
                 is_zero_value == is_zero(Deref(ctx, value_word))
                 was_zero_original == is_zero(e.original)
                 was_zero_current == is_zero(e.value)
                 is_warm == e.is_warm # 0
                 warm_cost == IF is_warm THEN 100 ELSE 2100
                 refund == IF is_zero_value /\ ~was_zero_current THEN 4800 ELSE 0
                 gas_cost ==
                     IF is_zero_value THEN warm_cost
                     ELSE IF was_zero_current /\ ~was_zero_original THEN warm_cost
                     ELSE IF was_zero_current THEN 20000
                     ELSE warm_cost
                 c == [ctx EXCEPT !.frame.gas_refund = @ + refund,
                                  !.storage[entry + 1].value = Deref(ctx, value_word),
                                  !.storage[entry + 1].is_warm = 1]
             IN  OpResult(stack_free(c, 2), 1, gas_cost)
        ELSE LET added == add(ctx.storage, ctx.frame.storage_slot_count,
                              ctx.frame.max_storage_slots, address,
                              Deref(ctx, key_word))
             IN  IF added.entry = nullptr
                 THEN OpResult([ctx EXCEPT !.frame.state = EXCEPTIONAL_HALT,
                                           !.frame.halt_reason = INVALID_OPERATION],
                               -1, 0)
                 ELSE LET c == [ctx EXCEPT
                                   !.frame.storage_slot_count = added.count,
                                   !.storage =
                                       [added.entries EXCEPT
                                           ![added.entry + 1].value =
                                               Deref(ctx, value_word),
                                           ![added.entry + 1].original =
                                               Deref(ctx, value_word),
                                           ![added.entry + 1].is_warm = 1]]
                      IN  OpResult(stack_free(c, 2), 1, 20000)

\* dest >= code_size || code[dest] != 0x5b, on the uint32_t dest
BadJumpDest(ctx, dest) ==
    U32GeqInt(dest, ctx.frame.code_size) \/ ctx.code[U32Lo(dest) + 1] # 91

op_jump(ctx) ==
    LET dest_word == stack_top(ctx, 0)
        dest == U32(Deref(ctx, dest_word))
    IN  IF dest_word = nullptr THEN OpResult(ctx, -1, 0)
        ELSE IF BadJumpDest(ctx, dest)
        THEN OpResult([ctx EXCEPT !.frame.state = EXCEPTIONAL_HALT,
                                  !.frame.halt_reason = INVALID_JUMP_DESTINATION],
                      -1, 0)
        ELSE OpResult([stack_free(ctx, 1) EXCEPT !.frame.pc = U32Lo(dest)], 0, 8)

op_jumpi(ctx) ==
    LET dest_word == stack_top(ctx, 0)
        cond_word == stack_top(ctx, 1)
        should_jump == ~is_zero(Deref(ctx, cond_word))
        dest == U32(Deref(ctx, dest_word))
        c == stack_free(ctx, 2)
    IN  IF dest_word = nullptr \/ cond_word = nullptr THEN OpResult(ctx, -1, 0)
        ELSE IF should_jump
        THEN IF BadJumpDest(c, dest)
             THEN OpResult([c EXCEPT !.frame.state = EXCEPTIONAL_HALT,
                                     !.frame.halt_reason = INVALID_JUMP_DESTINATION],
                           -1, 0)
             ELSE OpResult([c EXCEPT !.frame.pc = U32Lo(dest)], 0, 10)
        ELSE OpResult(c, 1, 10)

op_pc(ctx) ==
    LET al == stack_alloc(ctx)
    IN  IF al.item = nullptr THEN OpResult(ctx, -1, 0)
        ELSE OpResult(Store(al.ctx, al.item, W(ctx.frame.pc)), 1, 2)

op_gas(ctx) ==
    LET al == stack_alloc(ctx)
    IN  IF al.item = nullptr THEN OpResult(ctx, -1, 0)
        ELSE OpResult(Store(al.ctx, al.item, W(ctx.frame.gas_remaining)), 1, 2)

op_jumpdest_free(ctx) == OpResult(ctx, 1, 0)

op_jumpdest(ctx) == OpResult(ctx, 1, 1)

op_push0(ctx) ==
    LET al == stack_alloc(ctx)
    IN  IF al.item = nullptr THEN OpResult(ctx, -1, 0)
        ELSE OpResult(Store(al.ctx, al.item, ZeroWord), 1, 2)

Min(a, b) == IF a < b THEN a ELSE b

\* the word PUSHn builds: bytes_to_copy code bytes after the opcode, copied to
\* the end of a zeroed word
PushWord(ctx, n) ==
    LET bytes_to_copy == Min(n, ctx.frame.code_size - ctx.frame.pc - 1)
    IN  IF bytes_to_copy > 0
        THEN ZeroBytes(WORD_SIZE - bytes_to_copy) \o
             SubSeq(ctx.code, ctx.frame.pc + 2, ctx.frame.pc + 1 + bytes_to_copy)
        ELSE ZeroWord

op_push_n(ctx, n) ==
    LET al == stack_alloc(ctx)
    IN  IF al.item = nullptr THEN OpResult(ctx, -1, 0)
        ELSE OpResult(Store(al.ctx, al.item, PushWord(ctx, n)), 1 + n, 3)

op_dup_n(ctx, n) ==
    LET source == stack_top(ctx, n - 1)
        al == stack_alloc(ctx)
    IN  IF source = nullptr THEN OpResult(ctx, -1, 0)
        ELSE IF al.item = nullptr THEN OpResult(ctx, -1, 0)
        ELSE OpResult(Store(al.ctx, al.item, Deref(ctx, source)), 1, 3)

\* op_swap_n without the write of the saved top into the other slot
op_swap_n_one_way(ctx, n) ==
    LET top == stack_top(ctx, 0)
        other == stack_top(ctx, n)
    IN  IF top = nullptr \/ other = nullptr THEN OpResult(ctx, -1, 0)
        ELSE OpResult(Store(ctx, top, Deref(ctx, other)), 1, 3)

op_swap_n(ctx, n) ==
    LET top == stack_top(ctx, 0)
        other == stack_top(ctx, n)
        temp == Deref(ctx, top)
    IN  IF top = nullptr \/ other = nullptr THEN OpResult(ctx, -1, 0)
        ELSE OpResult(Store(Store(ctx, top, Deref(ctx, other)), other, temp), 1, 3)

op_stub(ctx) == OpResult(ctx, 1, 3)

op_invalid_no_reason(ctx) ==
    OpResult([ctx EXCEPT !.frame.state = EXCEPTIONAL_HALT], -1, 0)

op_invalid(ctx) ==
    OpResult([ctx EXCEPT !.frame.state = EXCEPTIONAL_HALT,
                         !.frame.halt_reason = INVALID_OPERATION], -1, 0)

\* the handler table of the optimized variant, indexed by the opcode byte
JUMP_TABLE(opcode, ctx) ==
    CASE opcode = 0 -> op_stop(ctx)
      [] opcode = 1 -> op_add(ctx)
      [] opcode = 2 -> op_mul(ctx)
      [] opcode = 3 -> op_sub(ctx)
      [] opcode = 4 -> op_div(ctx)
      [] opcode = 6 -> op_mod(ctx)
      [] opcode = 16 -> op_lt(ctx)
      [] opcode = 17 -> op_gt(ctx)
      [] opcode = 20 -> op_eq(ctx)
      [] opcode = 21 -> op_iszero(ctx)
      [] opcode = 22 -> op_and(ctx)
      [] opcode = 23 -> op_or(ctx)
      [] opcode = 24 -> op_xor(ctx)
      [] opcode = 25 -> op_not(ctx)
      [] opcode = 68 -> op_sload(ctx)
      [] opcode = 69 -> op_sstore(ctx)
      [] opcode = 80 -> op_pop(ctx)
      [] opcode = 81 -> op_mload(ctx)
      [] opcode = 82 -> op_mstore(ctx)
      [] opcode = 83 -> op_mstore8(ctx)
      [] opcode = 86 -> op_jump(ctx)
      [] opcode = 87 -> op_jumpi(ctx)
      [] opcode = 88 -> op_pc(ctx)
      [] opcode = 90 -> op_gas(ctx)
      [] opcode = 91 -> op_jumpdest(ctx)
      [] opcode = 95 -> op_push0(ctx)
      [] opcode \in 96..127 -> op_push_n(ctx, opcode - 95)
      [] opcode \in 128..143 -> op_dup_n(ctx, opcode - 127)
      [] opcode \in 144..159 -> op_swap_n(ctx, opcode - 143)
      [] opcode \in 253..255 -> op_invalid(ctx)
      [] OTHER -> op_stub(ctx)

\* ------------------------------------------------------------------------
\* Jump-table variant (src/src/evm_jumptable.cpp): the handlers pop their
\* operands into temporaries and push the result.  word_to_u64, u64_to_word,
\* is_zero and ensure_memory have the same bodies in both files and are
\* shared; this variant has no storage plane.

stack_peek(ctx, offset) ==
    IF offset >= ctx.frame.stack_size THEN nullptr
    ELSE ctx.frame.stack_size - 1 - offset

stack_push(ctx, value) ==
    IF ctx.frame.stack_size >= STACK_LIMIT THEN [ok |-> FALSE, ctx |-> ctx]
    ELSE [ok |-> TRUE,
          ctx |-> [ctx EXCEPT !.stack = Append(@, value),
                              !.frame.stack_size = @ + 1,
                              !.wr = @ \cup {ctx.frame.stack_size}]]

stack_pop(ctx) ==
    IF ctx.frame.stack_size = 0 THEN [ok |-> FALSE, ctx |-> ctx, out |-> ZeroWord]
    ELSE [ok |-> TRUE,
          ctx |-> [ctx EXCEPT !.frame.stack_size = @ - 1,
                              !.stack = SubSeq(@, 1, ctx.frame.stack_size - 1)],
          out |-> ctx.stack[ctx.frame.stack_size]]

jt_op_stop(ctx) ==
    OpResult([ctx EXCEPT !.frame.state = COMPLETED_SUCCESS], 0, 0)

\* the shape shared by the two-operand handlers: pop a, pop b, push f(a, b)
PopPopPush(ctx, F(_, _), gas_cost) ==
    LET pa == stack_pop(ctx)
        pb == stack_pop(pa.ctx)
        ps == stack_push(pb.ctx, F(pa.out, pb.out))
    IN  IF ~pa.ok THEN OpResult(ctx, -1, 0)
        ELSE IF ~pb.ok THEN OpResult(pa.ctx, -1, 0)
        ELSE IF ~ps.ok THEN OpResult(pb.ctx, -1, 0)
        ELSE OpResult(ps.ctx, 1, gas_cost)

\* the shape shared by the one-operand handlers: pop a, push f(a)
PopPush(ctx, F(_), gas_cost) ==
    LET pa == stack_pop(ctx)
        ps == stack_push(pa.ctx, F(pa.out))
    IN  IF ~pa.ok THEN OpResult(ctx, -1, 0)
        ELSE IF ~ps.ok THEN OpResult(pa.ctx, -1, 0)
        ELSE OpResult(ps.ctx, 1, gas_cost)

jt_op_add(ctx) ==
    LET F(a, b) == u64_to_word(U64Add(word_to_u64(a), word_to_u64(b)))
    IN  PopPopPush(ctx, F, 3)

jt_op_mul(ctx) ==
    LET F(a, b) == u64_to_word(U64Mul(word_to_u64(a), word_to_u64(b)))
    IN  PopPopPush(ctx, F, 5)

jt_op_sub(ctx) ==
    LET F(a, b) == u64_to_word(U64Sub(word_to_u64(a), word_to_u64(b)))
    IN  PopPopPush(ctx, F, 3)

jt_op_div(ctx) ==
    LET F(a, b) == u64_to_word(U64Div(word_to_u64(a), word_to_u64(b)))
    IN  PopPopPush(ctx, F, 5)

jt_op_mod(ctx) ==
    LET F(a, b) == u64_to_word(U64Mod(word_to_u64(a), word_to_u64(b)))
    IN  PopPopPush(ctx, F, 5)

jt_op_lt(ctx) ==
    LET F(a, b) == W(IF U64Lt(word_to_u64(a), word_to_u64(b)) THEN 1 ELSE 0)
    IN  PopPopPush(ctx, F, 3)

jt_op_gt(ctx) ==
    LET F(a, b) == W(IF U64Gt(word_to_u64(a), word_to_u64(b)) THEN 1 ELSE 0)
    IN  PopPopPush(ctx, F, 3)

jt_op_eq(ctx) ==
    LET F(a, b) == W(IF a = b THEN 1 ELSE 0)
    IN  PopPopPush(ctx, F, 3)

jt_op_iszero(ctx) ==
    LET F(a) == W(IF is_zero(a) THEN 1 ELSE 0)
    IN  PopPush(ctx, F, 3)

jt_op_and(ctx) ==
    LET F(a, b) == [i \in 1..WORD_SIZE |-> BitAnd(a[i], b[i])]
    IN  PopPopPush(ctx, F, 3)

jt_op_or(ctx) ==
    LET F(a, b) == [i \in 1..WORD_SIZE |-> BitOr(a[i], b[i])]
    IN  PopPopPush(ctx, F, 3)

jt_op_xor(ctx) ==
    LET F(a, b) == [i \in 1..WORD_SIZE |-> BitXor(a[i], b[i])]
    IN  PopPopPush(ctx, F, 3)

jt_op_not(ctx) ==
    LET F(a) == [i \in 1..WORD_SIZE |-> BitNot(a[i])]
    IN  PopPush(ctx, F, 3)

jt_op_pop(ctx) ==
    LET pa == stack_pop(ctx)
    IN  IF ~pa.ok THEN OpResult(ctx, -1, 0) ELSE OpResult(pa.ctx, 1, 2)

jt_op_mload(ctx) ==
    LET po == stack_pop(ctx)
        offset == U32(po.out)
        em == ensure_memory(po.ctx, offset, 32)
        c == em.ctx
        result == IF InMemory(c, offset, 32)
                  THEN [i \in 1..WORD_SIZE |-> MemRead(c.memory, U32Lo(offset) + i - 1)]
                  ELSE c.wild
        ps == stack_push([c EXCEPT !.ub = @ \/ ~InMemory(c, offset, 32)], result)
    IN  IF ~po.ok THEN OpResult(ctx, -1, 0)
        ELSE IF ~em.ok THEN OpResult(c, -1, 0)
        ELSE IF ~ps.ok THEN OpResult(ps.ctx, -1, 0)
        ELSE OpResult(ps.ctx, 1, 3)

jt_op_mstore(ctx) ==
    LET po == stack_pop(ctx)
        pv == stack_pop(po.ctx)
        offset == U32(po.out)
        em == ensure_memory(pv.ctx, offset, 32)
        c == em.ctx
    IN  IF ~po.ok THEN OpResult(ctx, -1, 0)
        ELSE IF ~pv.ok THEN OpResult(po.ctx, -1, 0)
        ELSE IF ~em.ok THEN OpResult(c, -1, 0)
        ELSE IF InMemory(c, offset, 32)
        THEN OpResult([c EXCEPT !.memory = MemWrite(@, U32Lo(offset), pv.out)], 1, 3)
        ELSE OpResult([c EXCEPT !.ub = TRUE], 1, 3)

jt_op_mstore8(ctx) ==
    LET po == stack_pop(ctx)
        pv == stack_pop(po.ctx)
        offset == U32(po.out)
        em == ensure_memory(pv.ctx, offset, 1)
        c == em.ctx
    IN  IF ~po.ok THEN OpResult(ctx, -1, 0)
        ELSE IF ~pv.ok THEN OpResult(po.ctx, -1, 0)
        ELSE IF ~em.ok THEN OpResult(c, -1, 0)
        ELSE IF InMemory(c, offset, 1)
        THEN OpResult([c EXCEPT !.memory = MemWrite(@, U32Lo(offset), <<pv.out[32]>>)],
                      1, 3)
        ELSE OpResult([c EXCEPT !.ub = TRUE], 1, 3)

jt_op_jump(ctx) ==
    LET pd == stack_pop(ctx)
        dest == U32(pd.out)
    IN  IF ~pd.ok THEN OpResult(ctx, -1, 0)
        ELSE IF BadJumpDest(pd.ctx, dest)
        THEN OpResult([pd.ctx EXCEPT !.frame.state = EXCEPTIONAL_HALT,
                                     !.frame.halt_reason = INVALID_JUMP_DESTINATION],
                      -1, 0)
        ELSE OpResult([pd.ctx EXCEPT !.frame.pc = U32Lo(dest)], 0, 8)

jt_op_jumpi(ctx) ==
    LET pd == stack_pop(ctx)
        pc == stack_pop(pd.ctx)
        dest == U32(pd.out)
        c == pc.ctx
    IN  IF ~pd.ok THEN OpResult(ctx, -1, 0)
        ELSE IF ~pc.ok THEN OpResult(pd.ctx, -1, 0)
        ELSE IF ~is_zero(pc.out)
        THEN IF BadJumpDest(c, dest)
             THEN OpResult([c EXCEPT !.frame.state = EXCEPTIONAL_HALT,
                                     !.frame.halt_reason = INVALID_JUMP_DESTINATION],
                           -1, 0)
             ELSE OpResult([c EXCEPT !.frame.pc = U32Lo(dest)], 0, 10)
        ELSE OpResult(c, 1, 10)

jt_op_pc(ctx) ==
    LET ps == stack_push(ctx, W(ctx.frame.pc))
    IN  IF ~ps.ok THEN OpResult(ctx, -1, 0) ELSE OpResult(ps.ctx, 1, 2)

jt_op_gas(ctx) ==
    LET ps == stack_push(ctx, W(ctx.frame.gas_remaining))
    IN  IF ~ps.ok THEN OpResult(ctx, -1, 0) ELSE OpResult(ps.ctx, 1, 2)

jt_op_jumpdest(ctx) == OpResult(ctx, 1, 1)

jt_op_push0(ctx) ==
    LET ps == stack_push(ctx, ZeroWord)
    IN  IF ~ps.ok THEN OpResult(ctx, -1, 0) ELSE OpResult(ps.ctx, 1, 2)

jt_op_push_n(ctx, n) ==
    LET ps == stack_push(ctx, PushWord(ctx, n))
    IN  IF ~ps.ok THEN OpResult(ctx, -1, 0) ELSE OpResult(ps.ctx, 1 + n, 3)

jt_op_dup_n(ctx, n) ==
    LET item == stack_peek(ctx, n - 1)
        ps == stack_push(ctx, Deref(ctx, item))
    IN  IF item = nullptr THEN OpResult(ctx, -1, 0)
        ELSE IF ~ps.ok THEN OpResult(ctx, -1, 0)
        ELSE OpResult(ps.ctx, 1, 3)

jt_op_swap_n(ctx, n) ==
    LET top == stack_peek(ctx, 0)
        other == stack_peek(ctx, n)
        temp == Deref(ctx, top)
    IN  IF top = nullptr \/ other = nullptr THEN OpResult(ctx, -1, 0)
        ELSE OpResult(Store(Store(ctx, top, Deref(ctx, other)), other, temp), 1, 3)

jt_op_invalid(ctx) ==
    OpResult([ctx EXCEPT !.frame.state = EXCEPTIONAL_HALT,
                         !.frame.halt_reason = INVALID_OPERATION], -1, 0)

jt_op_stub(ctx) == OpResult(ctx, 1, 3)

\* the handler table of the jump-table variant
jt_JUMP_TABLE(opcode, ctx) ==
    CASE opcode = 0 -> jt_op_stop(ctx)
      [] opcode = 1 -> jt_op_add(ctx)
      [] opcode = 2 -> jt_op_mul(ctx)
      [] opcode = 3 -> jt_op_sub(ctx)
      [] opcode = 4 -> jt_op_div(ctx)
      [] opcode = 6 -> jt_op_mod(ctx)
      [] opcode = 16 -> jt_op_lt(ctx)
      [] opcode = 17 -> jt_op_gt(ctx)
      [] opcode = 20 -> jt_op_eq(ctx)
      [] opcode = 21 -> jt_op_iszero(ctx)
      [] opcode = 22 -> jt_op_and(ctx)
      [] opcode = 23 -> jt_op_or(ctx)
      [] opcode = 24 -> jt_op_xor(ctx)
      [] opcode = 25 -> jt_op_not(ctx)
      [] opcode = 80 -> jt_op_pop(ctx)
      [] opcode = 81 -> jt_op_mload(ctx)
      [] opcode = 82 -> jt_op_mstore(ctx)
      [] opcode = 83 -> jt_op_mstore8(ctx)
      [] opcode = 86 -> jt_op_jump(ctx)
      [] opcode = 87 -> jt_op_jumpi(ctx)
      [] opcode = 88 -> jt_op_pc(ctx)
      [] opcode = 90 -> jt_op_gas(ctx)
      [] opcode = 91 -> jt_op_jumpdest(ctx)
      [] opcode = 95 -> jt_op_push0(ctx)
      [] opcode \in 96..127 -> jt_op_push_n(ctx, opcode - 95)
      [] opcode \in 128..143 -> jt_op_dup_n(ctx, opcode - 127)
      [] opcode \in 144..159 -> jt_op_swap_n(ctx, opcode - 143)
      [] opcode \in 253..255 -> jt_op_invalid(ctx)
      [] OTHER -> jt_op_stub(ctx)

\* ------------------------------------------------------------------------
\* Switch-based variant (src/unnamed/part_002): the handlers return the pc
\* increment only and the loop charges gas_cost, 3 for every opcode but
\* STOP.  stack_pop, stack_push, stack_peek, the word helpers and
\* ensure_memory have the same bodies as in the jump-table variant, and so do
\* the arithmetic, comparison, bitwise, POP, memory, PC, GAS, PUSH, DUP and
\* SWAP handlers, whose pc increment is taken from the jump-table handler.

OUT_OF_BOUNDS == 7

STACK_OVERFLOW == 5

\* the low 24 bits of a uint64_t
U64Lo(v) == v[6] * 65536 + v[7] * 256 + v[8]

\* v >= n for a uint64_t v and an integer 0 <= n < 2^24
U64GeqInt(v, n) == (\E i \in 1..5 : v[i] > 0) \/ U64Lo(v) >= n

\* gas_cost = 3, the base cost the loop sets before the switch
BaseCost(r) == [r EXCEPT !.gas_cost = 3]

\* the handler sets the halt itself and returns 0
SwitchHalt(ctx, reason) ==
    OpResult([ctx EXCEPT !.frame.state = EXCEPTIONAL_HALT,
                         !.frame.halt_reason = reason], 0, 3)

\* halt_reason 7 past the end of the code, 6 on a byte that is no JUMPDEST
SwitchJumpTo(c, jump_dest) ==
    IF U64GeqInt(jump_dest, c.frame.code_size) THEN SwitchHalt(c, OUT_OF_BOUNDS)
    ELSE IF c.code[U64Lo(jump_dest) + 1] # 91 THEN SwitchHalt(c, ILLEGAL_STATE_CHANGE)
    ELSE OpResult([c EXCEPT !.frame.pc = U64Lo(jump_dest)], 0, 3)

sw_op_jump(ctx) ==
    LET pd == stack_pop(ctx)
    IN  IF ~pd.ok THEN OpResult(ctx, -1, 3)
        ELSE SwitchJumpTo(pd.ctx, word_to_u64(pd.out))

sw_op_jumpi(ctx) ==
    LET pd == stack_pop(ctx)
        pc == stack_pop(pd.ctx)
    IN  IF ~pd.ok THEN OpResult(ctx, -1, 3)
        ELSE IF ~pc.ok THEN OpResult(pd.ctx, -1, 3)
        ELSE IF ~is_zero(pc.out) THEN SwitchJumpTo(pc.ctx, word_to_u64(pd.out))
        ELSE OpResult(pc.ctx, 1, 3)

sw_op_msize(ctx) ==
    LET ps == stack_push(ctx, W(ctx.frame.memory_size))
    IN  IF ~ps.ok THEN OpResult(ctx, -1, 3) ELSE OpResult(ps.ctx, 1, 3)

sw_op_stub(ctx) == SwitchHalt(ctx, INVALID_OPERATION)

\* the switch statement of execute_message
switch_dispatch(opcode, ctx) ==
    CASE opcode = 0 -> jt_op_stop(ctx)
      [] opcode \in {1, 2, 3, 4, 6, 16, 17, 20, 21, 22, 23, 24, 25, 80, 81, 82, 83,
                     88, 90, 95}
           \cup 96..159 -> BaseCost(jt_JUMP_TABLE(opcode, ctx))
      [] opcode \in {84, 85, 49, 240, 241, 242, 244, 245, 250, 253, 255} ->
            sw_op_stub(ctx)
      [] opcode = 86 -> sw_op_jump(ctx)
      [] opcode = 87 -> sw_op_jumpi(ctx)
      [] opcode = 89 -> sw_op_msize(ctx)
      [] opcode = 91 -> OpResult(ctx, 1, 3)
      [] OTHER -> SwitchHalt(ctx, INVALID_OPERATION)

\* ------------------------------------------------------------------------
\* The frames execute_message is called on

\* the largest initial gas_remaining of the exhaustive family of calls
MaxGas == 14

SimpleAdd == <<96, 5, 96, 3, 1, 0>>
ValidJump == <<96, 4, 86, 0, 91, 0>>
InvalidJump == <<96, 3, 86, 0, 0>>
JumpToCodeSize == <<96, 3, 86>>
\* PUSH5 0x0100000007; JUMP; JUMPDEST; STOP
JumpHighWord == <<100, 1, 0, 0, 0, 7, 86, 91, 0>>
InfiniteLoop == <<91, 96, 0, 86>>
JumpiTaken == <<96, 1, 96, 6, 87, 0, 91, 0>>
JumpiNotTaken == <<96, 0, 96, 255, 87, 0>>
JumpiInvalid == <<96, 1, 96, 3, 87, 0>>
\* PUSH9 2^64 (condition); PUSH1 14; JUMPI; STOP; JUMPDEST; STOP
JumpiHighCond == <<104, 1, 0, 0, 0, 0, 0, 0, 0, 0, 96, 14, 87, 0, 91, 0>>
\* PUSH1 1; PUSH5 0x010000000A; JUMPI; STOP; JUMPDEST; STOP
JumpiHighDest == <<96, 1, 100, 1, 0, 0, 0, 10, 87, 0, 91, 0>>
StopOnly == <<0>>
EmptyCode == <<>>
JumpdestOnly == <<91>>
PopOnly == <<80>>
AddOnly == <<1, 0>>
JumpOnly == <<86, 0, 91>>
JumpiOnly == <<87, 0, 91>>
MstoreMload == <<96, 42, 96, 0, 82, 96, 0, 81, 0>>
Mstore8 == <<96, 255, 96, 33, 83, 0>>
\* PUSH3 0x100000; MLOAD
MloadCeiling == <<98, 16, 0, 0, 81, 0>>
\* PUSH3 0x0FFFE0; MLOAD
MloadLast == <<98, 15, 255, 224, 81, 0>>
\* PUSH4 0xFFFFFFFF; MLOAD
MloadWrap == <<99, 255, 255, 255, 255, 81, 0>>
\* PUSH4 0xFFFFFFFF; PUSH1 1; SWAP1; MSTORE
MstoreWrap == <<99, 255, 255, 255, 255, 96, 1, 144, 82, 0>>
\* PUSH1 42; PUSH1 7; SSTORE; PUSH1 7; SLOAD; STOP
StorageRoundTrip == <<96, 42, 96, 7, 85, 96, 7, 84, 0>>
\* the same program on the opcodes 0x45 and 0x44
StorageAt44 == <<96, 42, 96, 7, 69, 96, 7, 68, 0>>
\* PUSH1 0; PUSH1 7; 0x45; PUSH1 9; PUSH1 7; 0x45; PUSH1 8; 0x44; STOP
StorageClear == <<96, 0, 96, 7, 69, 96, 9, 96, 7, 69, 96, 8, 68, 0>>
InvalidOnly == <<254>>
StubThenStop == <<5, 0>>
DupSwap == <<96, 1, 96, 2, 144, 144, 128, 0>>
PcGas == <<88, 90, 95, 0>>
PushShort == <<97, 171>>
Push32Alone == <<127>>
PushTwice == <<95, 95, 0>>
\* PUSH1 32; MLOAD; STOP
MloadGrow == <<96, 32, 81, 0>>
\* PUSH1 7; SLOAD; PUSH1 7; SLOAD; STOP
SloadTwice == <<96, 7, 84, 96, 7, 84, 0>>
\* the same two loads through the table entry 0x44
SloadTwiceAt44 == <<96, 7, 68, 96, 7, 68, 0>>
\* SSTORE; STOP and SLOAD; STOP on the opcodes 0x55 and 0x54
SstoreOnly == <<85, 0>>
SloadOnly == <<84, 0>>
DupOnly == <<128, 0>>
\* one arithmetic opcode on the words the stack is started with
MulOnly == <<2, 0>>
SubOnly == <<3, 0>>
DivOnly == <<4, 0>>
ModOnly == <<6, 0>>
Arith == <<96, 7, 96, 3, 2, 96, 2, 3, 96, 5, 4, 96, 9, 6, 96, 1, 16, 96, 1, 17,
           96, 0, 20, 21, 96, 12, 22, 96, 10, 23, 96, 6, 24, 25, 0>>

\* PUSH1 0xAA; PUSH2 0x0400; MSTORE; STOP
MstorePastPlane == <<96, 170, 97, 4, 0, 82, 0>>
\* PUSH2 0x0400; MLOAD; STOP
MloadPastPlane == <<97, 4, 0, 81, 0>>
\* PUSH1 0xAA; PUSH2 0x03E0; MSTORE; STOP
MstorePlaneEnd == <<96, 170, 97, 3, 224, 82, 0>>

DemoPrograms == {MstorePastPlane, MloadPastPlane, MstorePlaneEnd, MstoreMload}

SmallPrograms ==
    {SimpleAdd, ValidJump, InvalidJump, JumpToCodeSize, JumpHighWord, InfiniteLoop,
     JumpiTaken, JumpiNotTaken, JumpiInvalid, JumpiHighCond, JumpiHighDest,
     StopOnly, EmptyCode, JumpdestOnly, PopOnly, MstoreMload, Mstore8,
     MloadCeiling, MloadLast, MloadWrap, MstoreWrap, InvalidOnly, StubThenStop,
     DupSwap, PcGas, PushShort, Push32Alone}

StackPrograms ==
    {PopOnly, AddOnly, JumpOnly, JumpiOnly, PushTwice, DupOnly, DupSwap, PcGas,
     SstoreOnly, SloadOnly}

LongPrograms ==
    {StorageRoundTrip, StorageAt44, StorageClear, MstoreMload, Mstore8, MloadGrow,
     SloadTwice, SloadTwiceAt44}

\* a destination word whose low 32 bits are 2 and whose value is 2^32 + 2
HighWord == [i \in 1..WORD_SIZE |-> IF i = 28 THEN 1 ELSE IF i = 32 THEN 2 ELSE 0]

\* the word 2^256 - 1, whose low 64 bits are 2^64 - 1
MaxWord == [i \in 1..WORD_SIZE |-> 255]

\* the word 255 * 2^248 + 7, whose low 64 bits are 7
TopHeavy == [i \in 1..WORD_SIZE |-> IF i = 1 THEN 255 ELSE IF i = 32 THEN 7 ELSE 0]

\* operand pairs whose sum, product or difference wraps around 2^64
WrapStacks == {<<MaxWord, W(2)>>, <<W(2), MaxWord>>}

\* operand pairs with a zero divisor, a small quotient, and bytes above the
\* low 64 bits
DivisorStacks ==
    {<<ZeroWord, W(5)>>, <<W(5), W(3)>>, <<W(3), TopHeavy>>, <<TopHeavy, W(9)>>}

Stacks ==
    {<<>>, <<W(5)>>, <<W(3), W(5)>>, <<W(1), W(2)>>, <<W(1), HighWord>>,
     [i \in 1..(STACK_LIMIT - 1) |-> ZeroWord], [i \in 1..STACK_LIMIT |-> ZeroWord]}

Address == [i \in 1..20 |-> 17]

OtherAddress == [i \in 1..20 |-> 34]

Entry(address, key, value, original, is_warm) ==
    [address |-> address, key |-> key, value |-> value, original |-> original,
     is_warm |-> is_warm]

\* storage planes the host passes in, with their capacity
Storages ==
    {[entries |-> <<>>, max |-> 2],
     [entries |-> <<>>, max |-> 0],
     [entries |-> <<Entry(OtherAddress, W(7), W(3), W(3), 0),
                    Entry(Address, W(7), W(5), W(5), 0)>>, max |-> 2],
     [entries |-> <<Entry(Address, W(7), ZeroWord, ZeroWord, 1)>>, max |-> 1]}

\* memory planes the host passes in: the bytes with a value, and memory_size
Memories ==
    {[bytes |-> <<>>, size |-> 0],
     [bytes |-> [a \in {0, 31, 40} |-> 9], size |-> 32]}

\* the empty memory plane of the block demo, followed by the code plane
DemoMemory == [bytes |-> <<>>, size |-> 0, reserved |-> DEMO_MEMORY_PLANE]

Variants == {"optimized", "jumptable"}

Call(code, gas, stk, mem, sto, is_static, tracer, var) ==
    [code |-> code, gas |-> gas, stack |-> stk, memory |-> mem, storage |-> sto,
     is_static |-> is_static, has_tracer |-> tracer, variant |-> var]

StackCalls ==
    {Call(c, g, s, [bytes |-> <<>>, size |-> 0], [entries |-> <<>>, max |-> 2],
          0, FALSE, v) :
        c \in StackPrograms, g \in {2, 100}, s \in Stacks, v \in Variants}

GasCalls ==
    {Call(c, g, <<>>, [bytes |-> <<>>, size |-> 0], [entries |-> <<>>, max |-> 2],
          0, t, v) :
        c \in SmallPrograms, g \in (-1)..MaxGas, t \in BOOLEAN, v \in Variants}

LoopCalls(programs) ==
    {Call(c, g, <<>>, [bytes |-> <<>>, size |-> 0],
          [entries |-> <<>>, max |-> 2], 0, t, v) :
        c \in programs, g \in {60, 100}, t \in BOOLEAN, v \in Variants}

ArithmeticCalls ==
    {Call(c, 100, s, [bytes |-> <<>>, size |-> 0], [entries |-> <<>>, max |-> 2],
          0, FALSE, v) :
        c \in {AddOnly, MulOnly, SubOnly}, s \in WrapStacks \cup DivisorStacks,
        v \in Variants}
    \cup
    {Call(c, 100, s, [bytes |-> <<>>, size |-> 0], [entries |-> <<>>, max |-> 2],
          0, FALSE, v) :
        c \in {DivOnly, ModOnly}, s \in DivisorStacks, v \in Variants}

\* the frames laid out as the block demo lays them out
DemoCalls ==
    {Call(c, 100, <<>>, DemoMemory, [entries |-> <<>>, max |-> 2], 0, FALSE, v) :
        c \in DemoPrograms, v \in Variants}

\* the frames the switch-based variant is run on
SwitchCalls ==
    {[c EXCEPT !.variant = "switch"] : c \in GasCalls \cup StackCalls}

Calls ==
    GasCalls
    \cup
    StackCalls
    \cup
    {Call(c, g, <<>>, m, st, is, TRUE, v) :
        c \in LongPrograms, g \in {100, 22000, 50000}, m \in Memories,
        st \in Storages, is \in {0, 1}, v \in Variants}
    \cup
    LoopCalls({InfiniteLoop, Arith, ValidJump})
    \cup
    ArithmeticCalls
    \cup
    DemoCalls

\* ------------------------------------------------------------------------
\* execute_message as a state machine
\*
\* frame, stack, memory, storage, code: the control block and its planes.
\* has_tracer, opcode, result: the locals of execute_message.
\* variant: which of the two translation units the call runs.
\* at: the position of the call, "call" (not yet entered), "loop" (the loop
\*     head), "pre" (about to call trace_pre_execution), "exec" (about to
\*     dispatch), "post", "advance", "returned".
\* Bookkeeping of the model, read by the properties only:
\* entry: the frame and planes as passed in;  log: one record per dispatched
\* handler, with the two words on top of the stack at dispatch;  trace: one record per tracer upcall;  stack_writes: the slots the
\* last handler wrote;  ub: whether a handler touched memory outside
\* [0, memory_size).

VARIABLES frame, stack, memory, storage, code, has_tracer, variant, at, opcode,
          result, entry, log, trace, stack_writes, ub, witness

vars == <<frame, stack, memory, storage, code, has_tracer, variant, at, opcode,
          result, entry, log, trace, stack_writes, ub, witness>>

\* what a wild read may return
WildWords == {ZeroWord, [i \in 1..WORD_SIZE |-> 255]}

Start(calls) ==
    \E c \in calls :
        /\ frame = [pc |-> 0, gas_remaining |-> c.gas, gas_refund |-> 0,
                    stack_size |-> Len(c.stack), memory_size |-> c.memory.size,
                    state |-> NOT_STARTED, is_static |-> c.is_static,
                    code_size |-> Len(c.code), halt_reason |-> NONE,
                    storage_slot_count |-> Len(c.storage.entries),
                    max_storage_slots |-> c.storage.max, contract |-> Address]
        /\ stack = c.stack
        /\ memory = c.memory.bytes
        /\ storage = c.storage.entries
        /\ code = c.code
        /\ has_tracer = c.has_tracer
        /\ variant = c.variant
        /\ at = "call"
        /\ opcode = 0
        /\ result = [pc_increment |-> 0, gas_cost |-> 0]
        /\ entry = [gas_remaining |-> c.gas, stack |-> c.stack,
                    memory |-> c.memory, storage |-> c.storage.entries,
                    code |-> c.code]
        /\ log = <<>>
        /\ trace = <<>>
        /\ stack_writes = {}
        /\ ub = FALSE

\* the account witness while no transfer is requested
IdleWitness ==
    [accounts |-> <<W(5), ZeroWord>>, from |-> nullptr, to |-> nullptr,
     value |-> ZeroWord, at |-> "idle", returned |-> FALSE]

Init == Start(Calls) /\ witness = IdleWitness

SwitchInit == Start(SwitchCalls) /\ witness = IdleWitness

LiveInit == Start(GasCalls \cup LoopCalls({InfiniteLoop})) /\ witness = IdleWitness

\* the balances and the values of the transfers
Balances == {ZeroWord, W(5), W(255), W(256)}

TransferValues == {ZeroWord, W(1), W(5), W(256)}

\* AccountEntry pointers: an index into witness.accounts, or nullptr
AccountPointers == {nullptr, 1, 2}

\* a host calling transfer_value on a witness of two accounts, with no
\* frame running
TransferInit ==
    /\ Start({Call(<<0>>, 0, <<>>, [bytes |-> <<>>, size |-> 0],
                    [entries |-> <<>>, max |-> 2], 0, FALSE, "optimized")})
    /\ \E b1 \in Balances, b2 \in Balances, f \in AccountPointers,
          t \in AccountPointers, v \in TransferValues :
            witness = [accounts |-> <<b1, b2>>, from |-> f, to |-> t,
                       value |-> v, at |-> "call", returned |-> FALSE]

\* from->balance[i] < value[i] at the first byte where the two differ
balance_below(balance, value) ==
    \E i \in 1..WORD_SIZE :
        /\ balance[i] < value[i]
        /\ \A j \in 1..(i - 1) : balance[j] = value[j]

\* transfer_value: the returned flag and the accounts it leaves
transfer_value(accounts, from, to, value) ==
    IF from = nullptr \/ to = nullptr
    THEN [accounts |-> accounts, returned |-> FALSE]
    ELSE IF is_zero(value)
    THEN [accounts |-> accounts, returned |-> TRUE]
    ELSE IF balance_below(accounts[from], value)
    THEN [accounts |-> accounts, returned |-> FALSE]
    ELSE [accounts |-> accounts, returned |-> TRUE]

Transfer ==
    /\ witness.at = "call"
    /\ LET r == transfer_value(witness.accounts, witness.from, witness.to,
                               witness.value)
       IN  witness' = [witness EXCEPT !.accounts = r.accounts,
                                      !.returned = r.returned,
                                      !.at = "returned"]
    /\ UNCHANGED <<frame, stack, memory, storage, code, has_tracer, variant,
                   at, opcode, result, entry, log, trace, stack_writes, ub>>

TransferNext == Transfer

TransferSpec == TransferInit /\ [][TransferNext]_vars

\* a loop condition that looks at pc only
LoopConditionPcOnly == frame.pc < frame.code_size

\* frame->pc < code_size && frame->state == 1
LoopCondition == frame.pc < frame.code_size /\ frame.state = EXECUTING

\* entry of execute_message on a non-null frame
Enter ==
    /\ at = "call"
    /\ frame' = [frame EXCEPT !.state = EXECUTING]
    /\ at' = "loop"
    /\ UNCHANGED <<stack, memory, storage, code, has_tracer, variant, witness, opcode,
                   result, entry, log, trace, stack_writes, ub>>

LoopExitKeepState ==
    /\ at = "loop"
    /\ ~LoopCondition
    /\ at' = "returned"
    /\ UNCHANGED <<frame, stack, memory, storage, code, has_tracer, variant, witness,
                   opcode, result, entry, log, trace, stack_writes, ub>>

\* the loop condition fails: the final state is set and the call returns
LoopExit ==
    /\ at = "loop"
    /\ ~LoopCondition
    /\ frame' = IF frame.state = EXECUTING
                THEN [frame EXCEPT !.state = COMPLETED_SUCCESS]
                ELSE frame
    /\ at' = "returned"
    /\ UNCHANGED <<stack, memory, storage, code, has_tracer, variant, witness, opcode,
                   result, entry, log, trace, stack_writes, ub>>

GasFloorHaltAdvancing ==
    /\ at = "loop"
    /\ LoopCondition
    /\ frame.gas_remaining < GAS_FLOOR
    /\ frame' = [frame EXCEPT !.state = EXCEPTIONAL_HALT,
                              !.halt_reason = INSUFFICIENT_GAS,
                              !.pc = @ + 1]
    /\ at' = "returned"
    /\ UNCHANGED <<stack, memory, storage, code, has_tracer, variant, witness, opcode,
                   result, entry, log, trace, stack_writes, ub>>

\* the gas floor at the head of the loop
GasFloorHalt ==
    /\ at = "loop"
    /\ LoopCondition
    /\ frame.gas_remaining < GAS_FLOOR
    /\ frame' = [frame EXCEPT !.state = EXCEPTIONAL_HALT,
                              !.halt_reason = INSUFFICIENT_GAS]
    /\ at' = "returned"
    /\ UNCHANGED <<stack, memory, storage, code, has_tracer, variant, witness, opcode,
                   result, entry, log, trace, stack_writes, ub>>

\* a fetch that goes to the dispatch without the pre-execution upcall
FetchUntraced ==
    /\ at = "loop"
    /\ LoopCondition
    /\ ~(frame.gas_remaining < GAS_FLOOR)
    /\ opcode' = code[frame.pc + 1]
    /\ at' = "exec"
    /\ UNCHANGED <<frame, stack, memory, storage, code, has_tracer, variant, witness,
                   result, entry, log, trace, stack_writes, ub>>

\* the opcode fetch
Fetch ==
    /\ at = "loop"
    /\ LoopCondition
    /\ ~(frame.gas_remaining < GAS_FLOOR)
    /\ opcode' = code[frame.pc + 1]
    /\ at' = IF has_tracer THEN "pre" ELSE "exec"
    /\ UNCHANGED <<frame, stack, memory, storage, code, has_tracer, variant, witness,
                   result, entry, log, trace, stack_writes, ub>>

\* a callback that is shown the gas as it was before the cost was taken
SeenBeforeCharge(ev, gas_cost, pc_increment) ==
    [ev |-> ev, opcode |-> opcode, pc |-> frame.pc,
     gas_remaining |-> frame.gas_remaining + gas_cost,
     stack_size |-> frame.stack_size,
     memory_size |-> frame.memory_size, state |-> frame.state,
     gas_cost |-> gas_cost, halt_reason |-> 0, pc_increment |-> pc_increment]

\* what a tracer callback sees of the frame
Seen(ev, gas_cost, pc_increment) ==
    [ev |-> ev, opcode |-> opcode, pc |-> frame.pc,
     gas_remaining |-> frame.gas_remaining, stack_size |-> frame.stack_size,
     memory_size |-> frame.memory_size, state |-> frame.state,
     gas_cost |-> gas_cost, halt_reason |-> 0, pc_increment |-> pc_increment]

\* tracer->trace_pre_execution(frame)
TracePre ==
    /\ at = "pre"
    /\ trace' = Append(trace, Seen("pre", 0, 0))
    /\ at' = "exec"
    /\ UNCHANGED <<frame, stack, memory, storage, code, has_tracer, variant, witness,
                   opcode, result, entry, log, stack_writes, ub>>

\* the handler the variant's table holds for the opcode
Handler(op, ctx) ==
    IF variant = "optimized" THEN JUMP_TABLE(op, ctx)
    ELSE IF variant = "jumptable" THEN jt_JUMP_TABLE(op, ctx)
    ELSE switch_dispatch(op, ctx)

Context(wild) ==
    [frame |-> frame, stack |-> stack, memory |-> memory, storage |-> storage,
     code |-> code, wr |-> {}, ub |-> FALSE, wild |-> wild]

SettleChargeUncovered(r) ==
    LET f == r.ctx.frame
    IN  IF r.pc_increment < 0
        THEN IF f.state = EXECUTING
             THEN [f EXCEPT !.state = EXCEPTIONAL_HALT, !.halt_reason = STACK_UNDERFLOW]
             ELSE f
        ELSE IF f.gas_remaining < r.gas_cost
        THEN [f EXCEPT !.state = EXCEPTIONAL_HALT, !.halt_reason = INSUFFICIENT_GAS,
                       !.gas_remaining = @ - r.gas_cost]
        ELSE [f EXCEPT !.gas_remaining = @ - r.gas_cost]

SettleNoGasCheck(r) ==
    LET f == r.ctx.frame
    IN  IF r.pc_increment < 0
        THEN IF f.state = EXECUTING
             THEN [f EXCEPT !.state = EXCEPTIONAL_HALT, !.halt_reason = STACK_UNDERFLOW]
             ELSE f
        ELSE [f EXCEPT !.gas_remaining = @ - r.gas_cost]

\* the switch-based loop: the halt reason of an error is chosen by the stack
\* depth, and the cost is subtracted before gas_remaining is tested
SettleSwitch(r) ==
    LET f == r.ctx.frame
    IN  IF r.pc_increment < 0
        THEN [f EXCEPT !.state = EXCEPTIONAL_HALT,
                       !.halt_reason = IF f.stack_size >= STACK_LIMIT
                                       THEN STACK_UNDERFLOW ELSE STACK_OVERFLOW]
        ELSE IF f.gas_remaining - r.gas_cost < 0
        THEN [f EXCEPT !.state = EXCEPTIONAL_HALT, !.halt_reason = INSUFFICIENT_GAS,
                       !.gas_remaining = @ - r.gas_cost]
        ELSE [f EXCEPT !.gas_remaining = @ - r.gas_cost]

\* the frame after the handler's result has been checked and charged
Settle(r) ==
    LET f == r.ctx.frame
    IN  IF variant = "switch" THEN SettleSwitch(r)
        ELSE IF r.pc_increment < 0
        THEN IF f.state = EXECUTING
             THEN [f EXCEPT !.state = EXCEPTIONAL_HALT, !.halt_reason = STACK_UNDERFLOW]
             ELSE f
        ELSE IF f.gas_remaining < r.gas_cost
        THEN [f EXCEPT !.state = EXCEPTIONAL_HALT, !.halt_reason = INSUFFICIENT_GAS]
        ELSE [f EXCEPT !.gas_remaining = @ - r.gas_cost]

\* how the dispatch ended: the handler signalled an error, the cost was not
\* covered, or the cost was charged
Outcome(r) ==
    IF r.pc_increment < 0 THEN "error"
    ELSE IF r.ctx.frame.gas_remaining < r.gas_cost THEN "out_of_gas"
    ELSE "charged"

\* the stack word at the given depth below the top when the handler is
\* entered, for the log (the zero word when the stack is shorter)
Operand(offset) ==
    IF frame.stack_size > offset THEN stack[frame.stack_size - offset]
    ELSE ZeroWord

\* the bytes the host reserved for the memory plane: the block demo puts
\* the code plane right behind DEMO_MEMORY_PLANE bytes, the other hosts
\* leave room for the whole MEMORY_LIMIT
ReservedMemory ==
    IF "reserved" \in DOMAIN entry.memory THEN entry.memory.reserved
    ELSE MEMORY_LIMIT

\* the code plane after a handler: the code byte i lies at memory address
\* ReservedMemory + i, and every address below memory_size has been
\* zero-filled or written through memory_base
CodePlaneAfter(ctx) ==
    [i \in 1..Len(ctx.code) |->
        IF ReservedMemory + i - 1 < ctx.frame.memory_size
        THEN MemRead(ctx.memory, ReservedMemory + i - 1)
        ELSE ctx.code[i]]

\* dispatch through the table, error check, gas check and gas consumption
Execute ==
    /\ at = "exec"
    /\ \E wild \in WildWords :
        LET r == Handler(opcode, Context(wild))
        IN  /\ frame' = Settle(r)
            /\ stack' = r.ctx.stack
            /\ memory' = r.ctx.memory
            /\ storage' = r.ctx.storage
            /\ code' = CodePlaneAfter(r.ctx)
            /\ stack_writes' = r.ctx.wr
            /\ ub' = (ub \/ r.ctx.ub)
            /\ result' = [pc_increment |-> r.pc_increment, gas_cost |-> r.gas_cost]
            /\ log' = Append(log, [opcode |-> opcode, pc |-> frame.pc,
                                   gas_before |-> frame.gas_remaining,
                                   gas_cost |-> r.gas_cost,
                                   pc_increment |-> r.pc_increment,
                                   outcome |-> Outcome(r),
                                   top |-> Operand(0), second |-> Operand(1)])
            /\ at' = IF Outcome(r) # "charged" THEN "returned"
                     ELSE IF has_tracer THEN "post" ELSE "advance"
    /\ UNCHANGED <<has_tracer, variant, witness, opcode, entry, trace>>

\* the handler table of one of the two table-driven variants
TableOf(var, op, ctx) ==
    IF var = "optimized" THEN JUMP_TABLE(op, ctx) ELSE jt_JUMP_TABLE(op, ctx)

\* the loop of execute_message as a function of the planes: the context in
\* which the call returns when the loop is entered in the context ctx
RECURSIVE run_loop(_, _)
run_loop(var, ctx) ==
    LET f == ctx.frame
    IN  IF ~(f.pc < f.code_size /\ f.state = EXECUTING)
        THEN IF f.state = EXECUTING
             THEN [ctx EXCEPT !.frame.state = COMPLETED_SUCCESS]
             ELSE ctx
        ELSE IF f.gas_remaining < GAS_FLOOR
        THEN [ctx EXCEPT !.frame.state = EXCEPTIONAL_HALT,
                         !.frame.halt_reason = INSUFFICIENT_GAS]
        ELSE
            LET r == TableOf(var, ctx.code[f.pc + 1], ctx)
                g == r.ctx.frame
                after == [r.ctx EXCEPT !.code = CodePlaneAfter(r.ctx)]
            IN  IF r.pc_increment < 0
                THEN IF g.state = EXECUTING
                     THEN [after EXCEPT !.frame.state = EXCEPTIONAL_HALT,
                                        !.frame.halt_reason = STACK_UNDERFLOW]
                     ELSE after
                ELSE IF g.gas_remaining < r.gas_cost
                THEN [after EXCEPT !.frame.state = EXCEPTIONAL_HALT,
                                   !.frame.halt_reason = INSUFFICIENT_GAS]
                ELSE run_loop(var,
                        [after EXCEPT
                            !.frame.gas_remaining = @ - r.gas_cost,
                            !.frame.pc = IF r.pc_increment > 0
                                         THEN @ + r.pc_increment ELSE @])

\* the context in which the loop is entered for the call of this behaviour
EntryContext(wild) ==
    [frame |-> [frame EXCEPT !.pc = 0, !.gas_remaining = entry.gas_remaining,
                             !.gas_refund = 0, !.stack_size = Len(entry.stack),
                             !.memory_size = entry.memory.size,
                             !.state = EXECUTING, !.halt_reason = NONE,
                             !.storage_slot_count = Len(entry.storage)],
     stack |-> entry.stack, memory |-> entry.memory.bytes,
     storage |-> entry.storage, code |-> entry.code,
     wr |-> {}, ub |-> FALSE, wild |-> wild]

\* a loop that passes the post-execution upcall by
TracePostSilent ==
    /\ at = "post"
    /\ at' = "advance"
    /\ UNCHANGED <<frame, stack, memory, storage, code, has_tracer, variant, witness,
                   opcode, result, entry, log, trace, stack_writes, ub>>

\* tracer->trace_post_execution(frame, &op_result)
TracePost ==
    /\ at = "post"
    /\ trace' = Append(trace, Seen("post", result.gas_cost, result.pc_increment))
    /\ at' = "advance"
    /\ UNCHANGED <<frame, stack, memory, storage, code, has_tracer, variant, witness,
                   opcode, result, entry, log, stack_writes, ub>>

\* the program counter advance that closes an iteration
Advance ==
    /\ at = "advance"
    /\ frame' = IF result.pc_increment > 0
                THEN [frame EXCEPT !.pc = @ + result.pc_increment]
                ELSE frame
    /\ at' = "loop"
    /\ UNCHANGED <<stack, memory, storage, code, has_tracer, variant, witness, opcode,
                   result, entry, log, trace, stack_writes, ub>>

Next ==
    \/ Enter
    \/ LoopExit
    \/ GasFloorHalt
    \/ Fetch
    \/ TracePre
    \/ Execute
    \/ TracePost
    \/ Advance

Spec == Init /\ [][Next]_vars

\* the switch-based execute_message on the same frames
SwitchSpec == SwitchInit /\ [][Next]_vars

\* the call is a sequential program: a step that can be taken is taken
LiveSpec == LiveInit /\ [][Next]_vars /\ WF_vars(Next)

\* ------------------------------------------------------------------------
\* Properties

Returned == at = "returned"

LastLog == log[Len(log)]

\* the sum of the costs of the dispatched opcodes that were charged
RECURSIVE SumCharged(_)
SumCharged(l) ==
    IF l = <<>> THEN 0
    ELSE SumCharged(SubSeq(l, 1, Len(l) - 1))
         + (IF l[Len(l)].outcome = "charged" THEN l[Len(l)].gas_cost ELSE 0)

\* C1: when execute_message returns, state is COMPLETED_SUCCESS or
\* EXCEPTIONAL_HALT (or REVERT / SUSPENDED), never NOT_STARTED or EXECUTING.
C1_ReturnState ==
    Returned =>
        /\ frame.state \in {COMPLETED_SUCCESS, EXCEPTIONAL_HALT, REVERT, SUSPENDED}
        /\ frame.state \notin {NOT_STARTED, EXECUTING}

\* a call that ran off the end of its code after dispatching opcodes
C1_Witness ==
    /\ Returned
    /\ frame.state = COMPLETED_SUCCESS
    /\ frame.pc >= frame.code_size
    /\ log # <<>>

\* C2: every call returns, and every dispatch that does not end the run
\* lowers gas_remaining by at least 1.
C2_Terminates ==
    /\ <>Returned
    /\ [][(at = "exec" /\ at' # "returned" /\ frame'.state = EXECUTING) =>
            frame'.gas_remaining <= frame.gas_remaining - 1]_vars

\* JUMPDEST; PUSH1 0; JUMP has gone round eight times and run out of gas
C2_Witness ==
    /\ Returned
    /\ code = InfiniteLoop
    /\ frame.state = EXCEPTIONAL_HALT
    /\ frame.halt_reason = INSUFFICIENT_GAS
    /\ Len(log) >= 24

\* C3: at return the gas consumed is the sum of the costs of the opcodes that
\* were dispatched and charged; an opcode whose cost was not covered, or whose
\* handler signalled an error, is charged nothing.
C3_GasAccounting ==
    Returned =>
        /\ entry.gas_remaining - frame.gas_remaining = SumCharged(log)
        /\ (log # <<>> /\ LastLog.outcome # "charged") =>
                frame.gas_remaining = LastLog.gas_before

\* a run that charged an opcode and then met a cost it could not cover
C3_Witness ==
    /\ Returned
    /\ Len(log) >= 2
    /\ log[1].outcome = "charged"
    /\ LastLog.outcome = "out_of_gas"
    /\ LastLog.gas_cost > frame.gas_remaining

\* C4: at the loop head with pc < code_size, state EXECUTING and
\* gas_remaining < 3 the frame halts with EXCEPTIONAL_HALT / INSUFFICIENT_GAS,
\* no handler or tracer callback runs and pc, gas_remaining, stack, memory and
\* storage keep their values; the simple-add program with 2 gas ends at pc 0.
C4_GasFloor ==
    /\ [][(at = "loop" /\ LoopCondition /\ frame.gas_remaining < 3) =>
            /\ frame' = [frame EXCEPT !.state = EXCEPTIONAL_HALT,
                                      !.halt_reason = INSUFFICIENT_GAS]
            /\ at' = "returned"
            /\ UNCHANGED <<stack, memory, storage, log, trace>>]_vars
    /\ []((Returned /\ code = SimpleAdd /\ entry.gas_remaining = 2) =>
            /\ frame.state = EXCEPTIONAL_HALT
            /\ frame.halt_reason = INSUFFICIENT_GAS
            /\ frame.pc = 0)

\* the simple-add program, traced, halted by the floor before its first opcode
C4_Witness ==
    /\ Returned
    /\ code = SimpleAdd
    /\ entry.gas_remaining = 2
    /\ has_tracer
    /\ frame.halt_reason = INSUFFICIENT_GAS
    /\ log = <<>>
    /\ trace = <<>>

\* the result of the handler of the opcode at pc, run on the frame as it is
HandlerAtPc ==
    Handler(code[frame.pc + 1],
            [Context(ZeroWord) EXCEPT !.frame.state = EXECUTING])

\* C5: the frame halts with INSUFFICIENT_GAS only when the cost of the opcode
\* at pc exceeds gas_remaining; an opcode whose cost is covered (STOP at 0,
\* JUMPDEST at 1, POP at 2 included) is executed and charged.
C5_OnlyWhenCostExceeds ==
    (Returned /\ frame.state = EXCEPTIONAL_HALT
              /\ frame.halt_reason = INSUFFICIENT_GAS) =>
        \/ log # <<>> /\ LastLog.outcome = "out_of_gas"
        \/ HandlerAtPc.gas_cost > frame.gas_remaining

\* C6: from gas_remaining >= 0, gas_remaining is >= 0 in every state, in
\* particular at return and in every tracer callback, and no charged cost
\* exceeded the gas that remained.
C6_GasNonNegative ==
    entry.gas_remaining >= 0 =>
        /\ frame.gas_remaining >= 0
        /\ \A i \in 1..Len(trace) : trace[i].gas_remaining >= 0
        /\ \A i \in 1..Len(log) :
              log[i].outcome = "charged" => log[i].gas_cost <= log[i].gas_before

\* a post-execution callback that sees the gas spent to the last unit
C6_Witness ==
    /\ at = "post"
    /\ entry.gas_remaining > 0
    /\ frame.gas_remaining = 0
    /\ result.gas_cost > 0

\* C7: stack_size stays in [0, 1024] and memory_size a multiple of 32 in every
\* state, the tracer's observations included, and every stack write of a
\* handler goes to a slot in [0, 1023].
C7_StackAndMemoryBounds ==
    /\ frame.stack_size \in 0..STACK_LIMIT
    /\ frame.memory_size % 32 = 0
    /\ \A i \in 1..Len(trace) :
          trace[i].stack_size \in 0..STACK_LIMIT /\ trace[i].memory_size % 32 = 0
    /\ \A slot \in stack_writes : slot \in 0..(STACK_LIMIT - 1)

\* a push into the last slot of the stack plane
C7_Witness ==
    /\ Len(entry.stack) = STACK_LIMIT - 1
    /\ frame.stack_size = STACK_LIMIT
    /\ (STACK_LIMIT - 1) \in stack_writes

\* C8: on return from a call started with halt_reason 0, halt_reason = 0
\* implies COMPLETED_SUCCESS, and EXCEPTIONAL_HALT implies a halt_reason in
\* 1..7.
C8_HaltReason ==
    Returned =>
        /\ frame.halt_reason = NONE => frame.state = COMPLETED_SUCCESS
        /\ frame.state = EXCEPTIONAL_HALT => frame.halt_reason \in 1..7

\* a frame halted by the INVALID opcode
C8_Witness ==
    /\ Returned
    /\ frame.state = EXCEPTIONAL_HALT
    /\ frame.halt_reason = INVALID_OPERATION
    /\ code = InvalidOnly

\* the value of a whole 32-byte word is below n, for 0 <= n < 2^24
WordBelow(word, n) ==
    /\ \A i \in 1..29 : word[i] = 0
    /\ word[30] * 65536 + word[31] * 256 + word[32] < n

\* the value of a word that is below 2^24
WordValue(word) == word[30] * 65536 + word[31] * 256 + word[32]

\* the destination word denotes a JUMPDEST inside the code
ValidDestination(word) ==
    WordBelow(word, frame.code_size) /\ code[WordValue(word) + 1] = 91

\* C9: JUMP pops the destination word and sets pc to it only if the value of
\* the whole word is < code_size and code[dest] = 0x5B, at a cost of 8; for
\* every other destination it halts with INVALID_JUMP_DESTINATION.
C9_Jump ==
    [][(at = "exec" /\ opcode = 86 /\ frame.stack_size >= 1) =>
        LET dest == stack[frame.stack_size]
        IN  IF ValidDestination(dest)
            THEN /\ result'.gas_cost = 8
                 /\ frame.gas_remaining >= 8 =>
                        /\ frame'.pc = WordValue(dest)
                        /\ frame'.stack_size = frame.stack_size - 1
                        /\ frame'.gas_remaining = frame.gas_remaining - 8
            ELSE /\ frame'.state = EXCEPTIONAL_HALT
                 /\ frame'.halt_reason = INVALID_JUMP_DESTINATION
                 /\ at' = "returned"]_vars

\* C10: JUMPI pops destination then condition; on a non-zero condition it
\* makes JUMP's validity check and sets pc to the destination, on a zero
\* condition it advances by 1; both cost 10 and take two items off the stack.
C10_Jumpi ==
    [][(at = "exec" /\ opcode = 87 /\ frame.stack_size >= 2) =>
        LET dest == stack[frame.stack_size]
            cond == stack[frame.stack_size - 1]
            taken == \E i \in 1..WORD_SIZE : cond[i] # 0
        IN  IF taken /\ ~ValidDestination(dest)
            THEN /\ frame'.state = EXCEPTIONAL_HALT
                 /\ frame'.halt_reason = INVALID_JUMP_DESTINATION
                 /\ at' = "returned"
            ELSE /\ result'.gas_cost = 10
                 /\ frame'.stack_size = frame.stack_size - 2
                 /\ result'.pc_increment = (IF taken THEN 0 ELSE 1)
                 /\ frame.gas_remaining >= 10 =>
                        /\ frame'.pc = (IF taken THEN WordValue(dest) ELSE frame.pc)
                        /\ frame'.gas_remaining = frame.gas_remaining - 10]_vars

\* the destination fails the validity check however wide it is read: its low
\* 32 bits are no JUMPDEST inside the code
FailsValidity(word) ==
    U32GeqInt(U32(word), frame.code_size) \/ code[U32Lo(U32(word)) + 1] # 91

\* a JUMP, or a JUMPI with a non-zero condition, is about to be dispatched
\* on a destination that fails the validity check
InvalidJumpDispatched ==
    /\ at = "exec"
    /\ \/ opcode = 86 /\ frame.stack_size >= 1
       \/ /\ opcode = 87 /\ frame.stack_size >= 2
          /\ ~is_zero(stack[frame.stack_size - 1])
    /\ FailsValidity(stack[frame.stack_size])

\* C11: a JUMP or JUMPI whose destination fails the validity check halts the
\* frame with INVALID_JUMP_DESTINATION and charges no gas, in the switch-based
\* variant as in the table-driven ones.
C11_InvalidJumpFree ==
    [][InvalidJumpDispatched =>
        /\ frame'.state = EXCEPTIONAL_HALT
        /\ frame'.halt_reason = INVALID_JUMP_DESTINATION
        /\ frame'.gas_remaining = frame.gas_remaining]_vars

\* MLOAD, MSTORE or MSTORE8 is about to be dispatched with its operands
MemoryOpDispatched ==
    /\ at = "exec"
    /\ \/ opcode = 81 /\ frame.stack_size >= 1
       \/ opcode \in {82, 83} /\ frame.stack_size >= 2

\* the number of bytes the memory opcode accesses
AccessLen == IF opcode = 83 THEN 1 ELSE 32

\* C12: for every offset word, MLOAD, MSTORE and MSTORE8 either halt the
\* frame or access only bytes of [0, memory_size), offset + len being at most
\* the grown memory_size and memory_size at most 1 MiB.
C12_MemoryAccessInBounds ==
    [][MemoryOpDispatched =>
        \/ frame'.state = EXCEPTIONAL_HALT
        \/ /\ WordBelow(stack[frame.stack_size], frame'.memory_size - AccessLen + 1)
           /\ frame'.memory_size <= MEMORY_LIMIT
           /\ ~ub']_vars

\* the memory opcode's offset + len is at most 1 MiB
WithinCeiling ==
    WordBelow(stack[frame.stack_size], MEMORY_LIMIT - AccessLen + 1)

\* address a is one the memory opcode writes
Written(a) ==
    LET offset == WordValue(stack[frame.stack_size])
    IN  opcode # 81 /\ a >= offset /\ a < offset + AccessLen

\* C13: a memory opcode with offset + len <= 1 MiB leaves memory_size =
\* max(previous, ceil((offset + len) / 32) * 32), the bytes between the
\* previous and the new size zero but for its own write, and the bytes below
\* the previous size outside its write unchanged; memory_size never
\* decreases; MLOAD at 0 on empty memory pushes 32 zero bytes and leaves
\* memory_size = 32.
C13_MemoryGrowth ==
    /\ [][frame'.memory_size >= frame.memory_size]_vars
    /\ [][(MemoryOpDispatched /\ WithinCeiling) =>
            LET offset == WordValue(stack[frame.stack_size])
                need == ((offset + AccessLen + 31) \div 32) * 32
                prev == frame.memory_size
            IN  /\ frame'.memory_size = (IF need > prev THEN need ELSE prev)
                /\ \A a \in DOMAIN memory \cup DOMAIN memory' :
                      ~Written(a) =>
                        /\ (a >= prev /\ a < frame'.memory_size) =>
                                MemRead(memory', a) = 0
                        /\ a < prev => MemRead(memory', a) = MemRead(memory, a)
                /\ (opcode = 81 /\ offset = 0 /\ prev = 0) =>
                        /\ stack'[frame'.stack_size] = ZeroWord
                        /\ frame'.memory_size = 32]_vars

\* MLOAD at 32 grew a 32-byte memory over a plane byte that was not zero
C13_Witness ==
    /\ code = MloadGrow
    /\ Len(log) = 2
    /\ entry.memory.size = 32
    /\ 40 \in DOMAIN entry.memory.bytes
    /\ frame.memory_size = 64
    /\ MemRead(memory, 40) = 0
    /\ stack[frame.stack_size] = ZeroWord

\* C14: a memory opcode whose offset + len passes the 1 MiB ceiling halts the
\* frame with EXCEPTIONAL_HALT / OUT_OF_BOUNDS and leaves memory_size
\* unchanged.
C14_CeilingHalt ==
    [][(MemoryOpDispatched /\ ~WithinCeiling) =>
        /\ frame'.state = EXCEPTIONAL_HALT
        /\ frame'.halt_reason = OUT_OF_BOUNDS
        /\ frame'.memory_size = frame.memory_size]_vars

\* PUSH0, PUSH1..PUSH32, DUP1..DUP16, PC or GAS is about to be dispatched
PushDispatched ==
    at = "exec" /\ opcode \in {88, 90, 95} \cup 96..143

\* C15: an opcode that pushes, dispatched with stack_size = 1024, halts the
\* frame with EXCEPTIONAL_HALT / STACK_OVERFLOW and leaves stack_size = 1024.
C15_StackOverflow ==
    [][(PushDispatched /\ frame.stack_size = STACK_LIMIT) =>
        /\ frame'.state = EXCEPTIONAL_HALT
        /\ frame'.halt_reason = STACK_OVERFLOW
        /\ frame'.stack_size = STACK_LIMIT]_vars

\* the number of stack items an opcode reads or pops; SLOAD is 0x54 and
\* SSTORE 0x55
Operands(op) ==
    CASE op \in {1, 2, 3, 4, 6, 16, 17, 20, 22, 23, 24, 82, 83, 85, 87} -> 2
      [] op \in {21, 25, 80, 81, 84, 86} -> 1
      [] op \in 128..143 -> op - 127
      [] op \in 144..159 -> op - 142
      [] OTHER -> 0

\* an opcode of the set ops is about to be dispatched on a stack that holds
\* fewer items than it reads or pops
UnderflowDispatched(ops) ==
    at = "exec" /\ opcode \in ops /\ frame.stack_size < Operands(opcode)

\* the frame halts with STACK_UNDERFLOW and is charged nothing
UnderflowHalt ==
    /\ frame'.state = EXCEPTIONAL_HALT
    /\ frame'.halt_reason = STACK_UNDERFLOW
    /\ frame'.gas_remaining = frame.gas_remaining

\* C16: any opcode dispatched with fewer stack items than it reads or pops
\* (a non-static frame for SSTORE) halts the frame with EXCEPTIONAL_HALT /
\* STACK_UNDERFLOW and charges no gas.
C16_StackUnderflow ==
    [][(UnderflowDispatched(0..255) /\ (opcode = 85 => frame.is_static = 0)) =>
        UnderflowHalt]_vars

\* the opcodes the specification enumerates as implemented
EnumeratedOpcodes ==
    {0, 1, 2, 3, 4, 6, 16, 17, 20, 21, 22, 23, 24, 25, 80, 81, 82, 83, 84, 85, 86,
     87, 88, 90, 91, 95} \cup 96..159

\* C17: dispatching INVALID (0xFE) or any opcode byte outside the enumerated
\* set halts the frame with EXCEPTIONAL_HALT / INVALID_OPERATION.
C17_InvalidOpcode ==
    [][(at = "exec" /\ opcode \notin EnumeratedOpcodes) =>
        /\ frame'.state = EXCEPTIONAL_HALT
        /\ frame'.halt_reason = INVALID_OPERATION]_vars

\* the storage plane, its count, the refund counter, the gas and the stack
\* are as they were
StorageAndStackKept ==
    /\ storage' = storage
    /\ frame'.storage_slot_count = frame.storage_slot_count
    /\ frame'.gas_refund = frame.gas_refund
    /\ frame'.gas_remaining = frame.gas_remaining
    /\ stack' = stack
    /\ frame'.stack_size = frame.stack_size

\* a step that dispatches the opcode op in a static frame halts with
\* ILLEGAL_STATE_CHANGE and changes nothing
StaticSstoreStep(op) ==
    (at = "exec" /\ opcode = op /\ frame.is_static # 0) =>
        /\ frame'.state = EXCEPTIONAL_HALT
        /\ frame'.halt_reason = ILLEGAL_STATE_CHANGE
        /\ StorageAndStackKept

\* C18: SSTORE (0x55) dispatched in a frame with is_static # 0 halts with
\* EXCEPTIONAL_HALT / ILLEGAL_STATE_CHANGE and leaves the storage entries,
\* storage_slot_count, gas_refund, gas_remaining and the stack unchanged,
\* whatever the stack depth and storage contents.
C18_StaticSstore == [][StaticSstoreStep(85)]_vars

\* the index of the entry for (contract, key on top of the stack), or nullptr
SlotOfTop ==
    IF frame.stack_size >= 1
    THEN find(storage, frame.storage_slot_count, frame.contract,
              stack[frame.stack_size])
    ELSE nullptr

\* the opcode op is about to be dispatched as a store in a non-static frame
\* with its two operands
StoreDispatched(op) ==
    at = "exec" /\ opcode = op /\ frame.is_static = 0 /\ frame.stack_size >= 2

\* the EIP-2200 cost of storing new_value into the entry e
Eip2200Cost(e, new_value) ==
    IF ~is_zero(new_value) /\ is_zero(e.value) /\ is_zero(e.original) THEN 20000
    ELSE IF e.is_warm # 0 THEN 100 ELSE 2100

\* a step that dispatches op on a present entry returns the table's cost,
\* adds the refund when a non-zero value is cleared, and leaves the entry
\* with the new value and warm
PresentSstoreStep(op) ==
    (StoreDispatched(op) /\ SlotOfTop # nullptr) =>
        LET e == storage[SlotOfTop + 1]
            new_value == stack[frame.stack_size - 1]
        IN  /\ result'.gas_cost = Eip2200Cost(e, new_value)
            /\ frame'.gas_refund = frame.gas_refund +
                    (IF is_zero(new_value) /\ ~is_zero(e.value) THEN 4800 ELSE 0)
            /\ storage'[SlotOfTop + 1].value = new_value
            /\ storage'[SlotOfTop + 1].is_warm = 1

\* gas_refund changes in no other step
RefundOnlyByClear(op) ==
    frame'.gas_refund # frame.gas_refund =>
        /\ StoreDispatched(op) /\ SlotOfTop # nullptr
        /\ is_zero(stack[frame.stack_size - 1])
        /\ ~is_zero(storage[SlotOfTop + 1].value)

\* C19: SSTORE (0x55) on a present entry in a non-static frame costs 20000
\* exactly when the new value is non-zero and current and original are zero,
\* otherwise 100 if the entry was warm and 2100 if not; gas_refund grows by
\* 4800 exactly when a non-zero current value is set to zero and no other
\* opcode changes it; afterwards the entry holds the new value and is warm.
C19_PresentSstore == [][PresentSstoreStep(85) /\ RefundOnlyByClear(85)]_vars

\* a step that dispatches op on an absent (contract, key): with room it
\* appends one warm entry holding the stored word as value and original and
\* costs 20000; without room it halts with INVALID_OPERATION and changes no
\* entry, count or stack item
AbsentSstoreStep(op) ==
    (StoreDispatched(op) /\ SlotOfTop = nullptr) =>
        LET count == frame.storage_slot_count
            key == stack[frame.stack_size]
            value == stack[frame.stack_size - 1]
        IN  IF count < frame.max_storage_slots
            THEN /\ frame'.storage_slot_count = count + 1
                 /\ SubSeq(storage', 1, count) = SubSeq(storage, 1, count)
                 /\ storage'[count + 1] =
                        [address |-> frame.contract, key |-> key, value |-> value,
                         original |-> value, is_warm |-> 1]
                 /\ result'.gas_cost = 20000
            ELSE /\ frame'.state = EXCEPTIONAL_HALT
                 /\ frame'.halt_reason = INVALID_OPERATION
                 /\ storage' = storage
                 /\ frame'.storage_slot_count = count
                 /\ stack' = stack
                 /\ frame'.stack_size = frame.stack_size

\* the count stays within the plane and never goes down
SlotCountBounded ==
    /\ frame.storage_slot_count <= frame.max_storage_slots
    /\ frame'.storage_slot_count >= frame.storage_slot_count

\* C20: SSTORE (0x55) to an absent (contract, key) in a non-static frame
\* appends exactly one entry at index storage_slot_count with value =
\* original = the stored word and is_warm = 1, raises the count by 1 and
\* costs 20000 when storage_slot_count < max_storage_slots; when the plane
\* is full it halts with EXCEPTIONAL_HALT / INVALID_OPERATION and changes
\* no entry, count or stack item.  storage_slot_count never exceeds
\* max_storage_slots and never decreases.
C20_AbsentSstore == [][AbsentSstoreStep(85) /\ SlotCountBounded]_vars

\* no entry's value or original changes, nor the number of entries
EntriesKept ==
    /\ frame'.storage_slot_count = frame.storage_slot_count
    /\ Len(storage') = Len(storage)
    /\ \A i \in 1..Len(storage) :
          /\ storage'[i].value = storage[i].value
          /\ storage'[i].original = storage[i].original

\* a step that dispatches op as a load: the key on top is replaced by the
\* entry's value at 100 (warm) or 2100 (cold) and the entry is marked warm,
\* or by the zero word at 2100 when there is no entry
SloadStep(op) ==
    (at = "exec" /\ opcode = op) =>
        /\ EntriesKept
        /\ frame.stack_size >= 1 =>
              LET top == frame.stack_size
              IN  /\ frame'.stack_size = top
                  /\ SubSeq(stack', 1, top - 1) = SubSeq(stack, 1, top - 1)
                  /\ IF SlotOfTop # nullptr
                     THEN LET e == storage[SlotOfTop + 1]
                          IN  /\ stack'[top] = e.value
                              /\ result'.gas_cost =
                                     (IF e.is_warm # 0 THEN 100 ELSE 2100)
                              /\ storage'[SlotOfTop + 1].is_warm = 1
                     ELSE /\ stack'[top] = ZeroWord
                          /\ result'.gas_cost = 2100

\* C21: SLOAD (0x54) replaces the key on top of the stack, at unchanged
\* depth, by the value of the entry for (contract, key), costing 100 if the
\* entry was warm and 2100 if cold and marking it warm; with no entry it
\* writes the zero word, costs 2100 and adds no entry.  SLOAD changes no
\* entry's value or original, nor storage_slot_count.
C21_Sload == [][SloadStep(84)]_vars

\* the log positions before i of the charged dispatches of st with key k
StoresBefore(st, i, k) ==
    {j \in 1..(i - 1) :
        log[j].opcode = st /\ log[j].outcome = "charged" /\ log[j].top = k}

\* the plane passed in has an entry for (contract, k) or room for one more
HasCapacity(k) ==
    \/ find(entry.storage, Len(entry.storage), frame.contract, k) # nullptr
    \/ Len(entry.storage) < frame.max_storage_slots

\* in a non-static frame with capacity, a load of k by ld has just been
\* charged, and st stored to k before it
LoadedAfterStore(st, ld) ==
    /\ at \in {"post", "advance"}
    /\ frame.is_static = 0
    /\ LastLog.opcode = ld
    /\ HasCapacity(LastLog.top)
    /\ StoresBefore(st, Len(log), LastLog.top) # {}

\* the word the last store of st to the loaded key wrote
LastStored(st) ==
    LET stores == StoresBefore(st, Len(log), LastLog.top)
        last == CHOOSE j \in stores : \A m \in stores : m <= j
    IN  log[last].second

\* after a store of v at k by st and a later load of k by ld, v is on top
RoundTrip(st, ld) ==
    LoadedAfterStore(st, ld) => stack[frame.stack_size] = LastStored(st)

\* C22: in a non-static frame with enough gas and storage capacity, after
\* SSTORE (0x55) of v at k and a later SLOAD (0x54) of k with no SSTORE to k
\* in between, v is on top of the stack, whether or not an entry for k
\* existed before.
C22_RoundTrip == RoundTrip(85, 84)

\* the call of the storage round-trip scenario on the program p has returned
ScenarioReturned(p) ==
    /\ Returned
    /\ code = p
    /\ entry.gas_remaining = 50000
    /\ entry.storage = <<>>
    /\ frame.max_storage_slots >= 1
    /\ frame.is_static = 0

\* what the scenario expects on return
ScenarioOutcome ==
    /\ frame.state = COMPLETED_SUCCESS
    /\ frame.storage_slot_count = 1
    /\ SubSeq(storage, 1, frame.storage_slot_count) =
           <<Entry(Address, W(7), W(42), W(42), 1)>>
    /\ frame.stack_size >= 1
    /\ stack[frame.stack_size] = W(42)
    /\ frame.gas_remaining = 29894

\* C23: PUSH1 0x2A; PUSH1 0x07; SSTORE; PUSH1 0x07; SLOAD; STOP on an empty
\* storage plane with capacity >= 1, 50,000 gas and is_static = 0 ends in
\* COMPLETED_SUCCESS with exactly one entry (contract, 7, 42, 42, warm),
\* 42 on top of the stack and gas_remaining = 29,894.
C23_StorageScenario == ScenarioReturned(StorageRoundTrip) => ScenarioOutcome

\* the first count entries hold at most one entry per (address, key)
OnePerKey(entries, count) ==
    \A i, j \in 1..count :
        (entries[i].address = entries[j].address /\ entries[i].key = entries[j].key)
            => i = j

\* C24: if the storage plane passed in holds at most one entry per
\* (address, key), then after any sequence of loads and stores it still
\* holds at most one entry per (address, key).
C24_OneEntryPerKey ==
    OnePerKey(entry.storage, Len(entry.storage)) =>
        OnePerKey(storage, frame.storage_slot_count)

\* op_sstore has written an entry that was present and appended another
C24_Witness ==
    /\ Returned
    /\ code = StorageClear
    /\ variant = "optimized"
    /\ frame.state = COMPLETED_SUCCESS
    /\ frame.storage_slot_count = Len(entry.storage) + 1
    /\ Len(entry.storage) = 0
    /\ storage[1].value = W(9)

\* the log positions where ld or st was dispatched and its handler did not
\* signal an error
Accesses(ld, st) ==
    {i \in 1..Len(log) : log[i].opcode \in {ld, st} /\ log[i].pc_increment > 0}

\* every entry addressed by a load of ld or a store of st is warm
AccessedAreWarm(ld, st) ==
    \A i \in Accesses(ld, st) :
        LET slot == find(storage, frame.storage_slot_count, frame.contract,
                         log[i].top)
        IN  slot # nullptr => storage[slot + 1].is_warm = 1

\* no entry goes from warm to cold
WarmStaysWarm ==
    \A i \in 1..Len(storage) :
        storage[i].is_warm = 1 => storage'[i].is_warm = 1

\* C25: on return every storage entry that an SLOAD (0x54) read or an
\* SSTORE (0x55) wrote or created during the call has is_warm = 1, also when
\* the run ended in an exceptional halt after the access, and no opcode
\* changes an entry's is_warm from 1 to 0.
C25_WarmOnReturn ==
    /\ [](Returned => AccessedAreWarm(84, 85))
    /\ [][WarmStaysWarm]_vars

\* a step that dispatches the load ld on a key that a load of ld or a store
\* of st has accessed before in this call is charged the warm cost
WarmLoadStep(ld, st) ==
    (/\ at = "exec" /\ opcode = ld /\ frame.stack_size >= 1
     /\ \E i \in Accesses(ld, st) : log[i].top = stack[frame.stack_size])
        => result'.gas_cost = 100

\* C26: once a slot (contract, key) has been accessed by an SLOAD or SSTORE
\* in the frame, every later SLOAD of the same slot is charged the warm cost
\* 100 and not the cold cost 2100, for slots with an entry at entry and for
\* slots with none.  Stated for the opcodes 0x54 / 0x55 and, in the
\* optimized variant, for the table indices 0x44 / 0x45 that hold op_sload
\* and op_sstore.
C26_WarmAfterAccess ==
    [][/\ WarmLoadStep(84, 85)
       /\ variant = "optimized" => WarmLoadStep(68, 69)]_vars

\* the n-byte immediate of a PUSHn at pc whose missing bytes are zero
PaddedImmediate(n) ==
    [i \in 1..n |-> IF frame.pc + i < frame.code_size THEN code[frame.pc + i + 1]
                    ELSE 0]

\* a PUSHn with fewer than n code bytes after it is about to be dispatched
\* on a stack with room
ShortPushDispatched(n) ==
    /\ at = "exec"
    /\ opcode = 95 + n
    /\ frame.pc + n >= frame.code_size
    /\ frame.stack_size < STACK_LIMIT

\* C27: PUSHn (n in 1..32) with fewer than n code bytes after the opcode
\* pushes the word that holds, right-aligned, the n-byte immediate made of
\* the available code bytes followed by zero bytes; it costs 3 and advances
\* pc by 1 + n.
C27_ShortPush ==
    [][\A n \in 1..WORD_SIZE :
          ShortPushDispatched(n) =>
              /\ frame'.stack_size = frame.stack_size + 1
              /\ stack'[frame.stack_size + 1] =
                     ZeroBytes(WORD_SIZE - n) \o PaddedImmediate(n)
              /\ result'.gas_cost = 3
              /\ result'.pc_increment = 1 + n]_vars

\* op(x, y) modulo 2^64 on the low 64 bits, with x / 0 = x % 0 = 0
Low64Result(op, x, y) ==
    CASE op = 1 -> U64Add(x, y)
      [] op = 2 -> U64Mul(x, y)
      [] op = 3 -> U64Sub(x, y)
      [] op = 4 -> IF U64IsZero(y) THEN ZeroBytes(8) ELSE U64Div(x, y)
      [] op = 6 -> IF U64IsZero(y) THEN ZeroBytes(8) ELSE U64Mod(x, y)

\* the same on operands below 2^12, in the integers (SUB only for va >= vb)
SmallResult(op, va, vb) ==
    CASE op = 1 -> va + vb
      [] op = 2 -> va * vb
      [] op = 3 -> va - vb
      [] op = 4 -> IF vb = 0 THEN 0 ELSE va \div vb
      [] op = 6 -> IF vb = 0 THEN 0 ELSE va % vb

ArithmeticCost(op) == IF op \in {1, 3} THEN 3 ELSE 5

\* one of ADD, MUL, SUB, DIV, MOD is about to be dispatched with two operands
ArithmeticDispatched ==
    at = "exec" /\ opcode \in {1, 2, 3, 4, 6} /\ frame.stack_size >= 2

\* C28: ADD, MUL, SUB, DIV and MOD with operands a (top) and b (second)
\* replace the two operands by one word whose last 8 bytes hold
\* op(low64(a), low64(b)) modulo 2^64 and whose first 24 bytes are zero,
\* DIV and MOD yielding 0 when low64(b) = 0; the stack depth decreases by
\* exactly 1 and the costs are 3, 5, 3, 5, 5.
C28_Arithmetic ==
    [][ArithmeticDispatched =>
          LET a == stack[frame.stack_size]
              b == stack[frame.stack_size - 1]
              r == stack'[frame.stack_size - 1]
          IN  /\ frame'.stack_size = frame.stack_size - 1
              /\ SubSeq(r, 1, 24) = ZeroBytes(24)
              /\ SubSeq(r, 25, 32) =
                     Low64Result(opcode, word_to_u64(a), word_to_u64(b))
              /\ (/\ WordBelow(a, 4096) /\ WordBelow(b, 4096)
                  /\ opcode = 3 => WordValue(a) >= WordValue(b))
                    => WordValue(r) = SmallResult(opcode, WordValue(a), WordValue(b))
              /\ SubSeq(stack', 1, frame.stack_size - 2) =
                     SubSeq(stack, 1, frame.stack_size - 2)
              /\ result'.gas_cost = ArithmeticCost(opcode)]_vars

\* a MUL of 2^256 - 1 by 2 has been charged and left 2^64 - 2
C28_Witness ==
    /\ at = "advance"
    /\ opcode = 2
    /\ LastLog.outcome = "charged"
    /\ LastLog.top = MaxWord
    /\ LastLog.second = W(2)
    /\ stack[frame.stack_size] =
           ZeroBytes(24) \o [i \in 1..8 |-> IF i = 8 THEN 254 ELSE 255]

\* the step that dispatches STOP completes the frame and leaves gas, pc and
\* the stack alone
StopStep ==
    (at = "exec" /\ opcode = 0) =>
        /\ frame'.state = COMPLETED_SUCCESS
        /\ frame'.gas_remaining = frame.gas_remaining
        /\ frame'.pc = frame.pc
        /\ frame'.stack_size = frame.stack_size
        /\ stack' = stack

\* the call returns from a STOP where the STOP found it
StoppedInPlace ==
    (Returned /\ log # <<>> /\ LastLog.opcode = 0) =>
        /\ frame.state = COMPLETED_SUCCESS
        /\ frame.pc = LastLog.pc
        /\ frame.gas_remaining = LastLog.gas_before

\* the loop head with the program counter past the code returns
\* COMPLETED_SUCCESS and dispatches nothing, whatever the gas
OffTheEndStep ==
    (at = "loop" /\ frame.state = EXECUTING /\ frame.pc >= frame.code_size) =>
        /\ at' = "returned"
        /\ frame' = [frame EXCEPT !.state = COMPLETED_SUCCESS]
        /\ log' = log
        /\ trace' = trace
        /\ stack' = stack /\ memory' = memory /\ storage' = storage

\* the valid-jump program on 100 gas ends at pc = 5 with 12 gas consumed
ValidJumpOutcome ==
    (Returned /\ code = ValidJump /\ entry.gas_remaining = 100) =>
        /\ frame.state = COMPLETED_SUCCESS
        /\ frame.pc = 5
        /\ entry.gas_remaining - frame.gas_remaining = 12

\* C29: a dispatched STOP sets COMPLETED_SUCCESS with gas_remaining, pc and
\* the stack unchanged; the loop head reached with pc >= code_size returns
\* COMPLETED_SUCCESS without dispatching anything, whatever gas_remaining
\* is; hence 60 04 56 00 5B 00 with 100 gas ends at pc = 5 having consumed
\* 12 gas.
C29_StopAndEnd ==
    /\ [][StopStep /\ OffTheEndStep]_vars
    /\ [](StoppedInPlace /\ ValidJumpOutcome)

\* the valid-jump program has returned from its last STOP on 100 gas
C29_Witness ==
    /\ Returned
    /\ code = ValidJump
    /\ entry.gas_remaining = 100
    /\ LastLog.opcode = 0
    /\ LastLog.pc = 5

\* the number of upcalls of the given kind so far
Upcalls(ev) == Cardinality({i \in 1..Len(trace) : trace[i].ev = ev})

\* the number of dispatched opcodes with the given outcomes so far
Dispatched(outcomes) ==
    Cardinality({i \in 1..Len(log) : log[i].outcome \in outcomes})

\* a traced call has returned
TracedReturn == Returned /\ has_tracer

\* PUSH1 5; PUSH1 3; ADD; STOP ran to completion under a tracer
TracedSimpleAdd ==
    TracedReturn /\ code = SimpleAdd /\ frame.state = COMPLETED_SUCCESS

\* C30: with a tracer attached, over any run the number of
\* trace_pre_execution invocations equals the number of
\* trace_post_execution invocations, and both equal the number of dispatched
\* opcodes whose handler did not signal an error; PUSH1 5; PUSH1 3; ADD;
\* STOP gives 4 pre-calls and 4 post-calls.
C30_TraceCounts ==
    /\ TracedReturn =>
          /\ Upcalls("pre") = Upcalls("post")
          /\ Upcalls("post") = Dispatched({"charged", "out_of_gas"})
    /\ TracedSimpleAdd => (Upcalls("pre") = 4 /\ Upcalls("post") = 4)

\* C30, amended: with a tracer attached, the number of trace_pre_execution
\* invocations equals the number of dispatched opcodes and the number of
\* trace_post_execution invocations equals the number of dispatched opcodes
\* that were charged (no handler error and the cost covered); the two are
\* equal unless the run ended on a dispatched opcode that was not charged,
\* and then there is one more pre-call; PUSH1 5; PUSH1 3; ADD; STOP run to
\* completion gives 4 pre-calls and 4 post-calls.
C30_TraceCountsAmended ==
    /\ TracedReturn =>
          /\ Upcalls("pre") = Len(log)
          /\ Upcalls("post") = Dispatched({"charged"})
          /\ Upcalls("pre") - Upcalls("post") =
                 (IF log # <<>> /\ LastLog.outcome # "charged" THEN 1 ELSE 0)
    /\ TracedSimpleAdd => (Upcalls("pre") = 4 /\ Upcalls("post") = 4)

\* a traced run that ended on a handler error after charged opcodes
C30_Witness ==
    /\ TracedReturn
    /\ Upcalls("post") >= 1
    /\ LastLog.outcome = "error"
    /\ Upcalls("pre") = Upcalls("post") + 1

\* the handler of a traced opcode is about to run
TracedDispatch == at = "exec" /\ has_tracer

\* the last upcall
LastTrace == trace[Len(trace)]

\* the upcall before the last one
PrevTrace == trace[Len(trace) - 1]

\* the upcall record shows the control block as it is now
SeesCurrent(t) ==
    /\ t.gas_remaining = frame.gas_remaining
    /\ t.stack_size = frame.stack_size
    /\ t.memory_size = frame.memory_size
    /\ t.state = frame.state

\* pre(op_i) has been invoked when the handler of op_i is entered, and it
\* saw the control block the handler is entered with
PreBeforeChanges ==
    TracedDispatch =>
        /\ trace # <<>>
        /\ LastTrace.ev = "pre"
        /\ LastTrace.opcode = opcode
        /\ LastTrace.pc = frame.pc
        /\ SeesCurrent(LastTrace)

\* the planes and the control block apart from pc change only in the step
\* that runs the handler and charges its cost
OnlyDispatchChanges ==
    at # "exec" =>
        /\ stack' = stack /\ memory' = memory /\ storage' = storage
        /\ frame'.gas_remaining = frame.gas_remaining
        /\ frame'.gas_refund = frame.gas_refund
        /\ frame'.stack_size = frame.stack_size
        /\ frame'.memory_size = frame.memory_size
        /\ frame'.storage_slot_count = frame.storage_slot_count

\* between post(op_i) and pre(op_i+1) nothing that post saw has changed
PostThenNextPre ==
    (TracedDispatch /\ Len(trace) >= 2) =>
        /\ PrevTrace.ev = "post"
        /\ SeesCurrent(PrevTrace)

\* the upcalls alternate pre, post, pre, post, starting with pre
Alternate ==
    \A i \in 1..Len(trace) :
        trace[i].ev = (IF i % 2 = 1 THEN "pre" ELSE "post")

PreSeesGasBefore ==
    \A k \in 1..Len(log) :
        2 * k - 1 <= Len(trace) =>
            trace[2 * k - 1].gas_remaining = log[k].gas_before

\* the k-th post upcall saw that gas less the cost, and was passed the
\* handler's cost and increment with halt_reason 0
PostSeesGasAfter ==
    \A k \in 1..Len(log) :
        2 * k <= Len(trace) =>
            /\ trace[2 * k].gas_remaining = log[k].gas_before - log[k].gas_cost
            /\ trace[2 * k].gas_cost = log[k].gas_cost
            /\ trace[2 * k].halt_reason = 0
            /\ trace[2 * k].pc_increment = log[k].pc_increment
            /\ trace[2 * k].opcode = 1 => trace[2 * k].gas_cost = 3

\* C32: for every traced opcode the gas_remaining visible in
\* trace_pre_execution is the value before the cost is deducted and the
\* one visible in trace_post_execution is that value minus the cost; the
\* OperationResult passed to post carries the handler's gas_cost and
\* pc_increment and halt_reason = 0 (for ADD, gas_cost = 3).
C32_TraceGas == has_tracer => (PreSeesGasBefore /\ PostSeesGasAfter)

\* the post upcall of a traced ADD has been made
C32_Witness ==
    /\ has_tracer
    /\ at = "advance"
    /\ opcode = 1
    /\ LastTrace.ev = "post"
    /\ LastTrace.gas_cost = 3
    /\ LastTrace.gas_remaining = LastLog.gas_before - 3

\* the memory plane stays inside the bytes the host reserved for it
MemoryInsideReserved == frame.memory_size <= ReservedMemory

\* a store writes only inside [0, memory_size)
StoresInsideMemory == (at = "exec" /\ opcode \in {82, 83}) => ub' = ub

\* C33: no sequence of opcodes modifies a byte of the code plane or the
\* code_size field: stack writes stay inside the 1024-slot stack plane and
\* memory writes inside the region the host reserved for memory, also for
\* the block demo's layout (a 1024-byte memory plane immediately followed
\* by the code plane).
C33_CodeImmutable ==
    /\ [][/\ code' = code
          /\ frame'.code_size = frame.code_size
          /\ stack_writes' \subseteq 0..(STACK_LIMIT - 1)
          /\ StoresInsideMemory]_vars
    /\ []MemoryInsideReserved

\* PUSH1 a; PUSH1 b; SWAP1; SWAP1 has run from an empty stack and the loop
\* is about to fetch the opcode behind the second SWAP1
SwappedTwice ==
    /\ Len(code) >= 6
    /\ SubSeq(code, 1, 6) = <<96, code[2], 96, code[4], 144, 144>>
    /\ entry.stack = <<>>
    /\ at = "loop"
    /\ frame.state = EXECUTING
    /\ frame.pc = 6

\* C34: starting from an empty stack, PUSH1 a; PUSH1 b; SWAP1; SWAP1 leaves
\* a stack of depth 2 whose contents, listed from the bottom, are [b, a].
C34_SwapTwice ==
    SwappedTwice =>
        /\ frame.stack_size = 2
        /\ stack[1] = W(code[4])
        /\ stack[2] = W(code[2])

\* C34 as the code has it: the second SWAP1 undoes the first, the stack is
\* the one the two pushes built, [a, b] from the bottom.
C34_SwapTwiceAmended ==
    SwappedTwice =>
        /\ frame.stack_size = 2
        /\ stack[1] = W(code[2])
        /\ stack[2] = W(code[4])

C34_Witness ==
    /\ SwappedTwice
    /\ code[2] # code[4]
    /\ stack[2] = W(2)

\* the balance of the account a pointer of the transfer designates
BalanceOf(w, pointer) == WordValue(w.accounts[pointer])

TransferReturns == witness.at = "call" /\ witness'.at = "returned"

\* C35: transfer_value(from, to, value) returns false exactly when from or
\* to is null or from.balance < value as 256-bit big-endian integers; when
\* it returns true with value # 0, from.balance has decreased by value and
\* to.balance has increased by value; when it returns false or value = 0
\* both balances are unchanged.
C35_TransferValue ==
    [][TransferReturns =>
        /\ ~witness'.returned <=>
               \/ witness.from = nullptr
               \/ witness.to = nullptr
               \/ BalanceOf(witness, witness.from) < WordValue(witness.value)
        /\ (witness'.returned /\ ~is_zero(witness.value)
                /\ witness.from # witness.to) =>
               /\ BalanceOf(witness', witness.from) =
                      BalanceOf(witness, witness.from) - WordValue(witness.value)
               /\ BalanceOf(witness', witness.to) =
                      BalanceOf(witness, witness.to) + WordValue(witness.value)
        /\ (~witness'.returned \/ is_zero(witness.value)) =>
               witness'.accounts = witness.accounts]_vars

\* the handler returned without an error and a cost above gas_remaining
CostNotCovered ==
    /\ at = "exec"
    /\ result'.pc_increment >= 0
    /\ result'.gas_cost > frame.gas_remaining

\* the frame halts for gas, uncharged, in the state the handler left
HaltsWithHandlerState ==
    CostNotCovered =>
        /\ at' = "returned"
        /\ frame'.state = EXCEPTIONAL_HALT
        /\ frame'.halt_reason = INSUFFICIENT_GAS
        /\ frame'.gas_remaining = frame.gas_remaining
        /\ \E wild \in WildWords :
              LET after == Handler(opcode, Context(wild)).ctx
              IN  /\ stack' = after.stack
                  /\ memory' = after.memory
                  /\ storage' = after.storage
                  /\ frame'.stack_size = after.frame.stack_size
                  /\ frame'.memory_size = after.frame.memory_size
                  /\ frame'.storage_slot_count = after.frame.storage_slot_count
                  /\ frame'.gas_refund = after.frame.gas_refund
                  /\ frame'.pc = after.frame.pc

\* a store to an absent key with room in the plane and less than 20000 gas
\* halts for gas and leaves its new entry
UnpaidSstoreStep(op) ==
    (/\ StoreDispatched(op)
     /\ SlotOfTop = nullptr
     /\ frame.storage_slot_count < frame.max_storage_slots
     /\ frame.gas_remaining < 20000) =>
        /\ frame'.state = EXCEPTIONAL_HALT
        /\ frame'.halt_reason = INSUFFICIENT_GAS
        /\ frame'.gas_remaining = frame.gas_remaining
        /\ frame'.storage_slot_count = frame.storage_slot_count + 1
        /\ Len(storage') >= frame'.storage_slot_count
        /\ storage'[frame'.storage_slot_count].key = stack[frame.stack_size]
        /\ storage'[frame'.storage_slot_count].value = stack[frame.stack_size - 1]

\* C36: when a handler succeeds but its cost exceeds gas_remaining, the
\* frame halts with INSUFFICIENT_GAS and gas_remaining unchanged, and the
\* changes the handler made to the stack, memory, storage entries,
\* storage_slot_count and gas_refund remain applied; an SSTORE (0x55) that
\* cannot pay 20000 still leaves its new entry in the storage plane.
C36_NoRollback == [][HaltsWithHandlerState /\ UnpaidSstoreStep(85)]_vars

\* the other of the two table-driven variants
OtherVariant == IF variant = "optimized" THEN "jumptable" ELSE "optimized"

\* no byte of the program is one of the given opcodes
NoOpcodeOf(ops) == \A i \in 1..Len(entry.code) : entry.code[i] \notin ops

\* the planes a returned context shows are those of this behaviour
SameReturn(other) ==
    /\ other.frame.state = frame.state
    /\ other.frame.halt_reason = frame.halt_reason
    /\ other.frame.pc = frame.pc
    /\ other.frame.gas_remaining = frame.gas_remaining
    /\ other.frame.memory_size = frame.memory_size
    /\ \A a \in 0..(frame.memory_size - 1) :
          MemRead(other.memory, a) = MemRead(memory, a)
    /\ frame.state # EXCEPTIONAL_HALT =>
          /\ other.frame.stack_size = frame.stack_size
          /\ SubSeq(other.stack, 1, frame.stack_size) =
                 SubSeq(stack, 1, frame.stack_size)

\* on return, the other variant run on the same call returns the same
Equivalent(ops) ==
    (Returned /\ variant \in Variants /\ NoOpcodeOf(ops)) =>
        \E wild \in WildWords : SameReturn(run_loop(OtherVariant, EntryContext(wild)))

\* C37: the optimized and the jump-table interpreter are equivalent on
\* every program without an SLOAD / SSTORE opcode: from the same control
\* block, stack, memory and code they return the same state, halt_reason,
\* pc, gas_remaining, memory_size and memory contents, and, unless the run
\* halts exceptionally, the same stack_size and live stack slots.
C37_Equivalent == Equivalent({84, 85})

\* the step in which the frame takes the halt reason INSUFFICIENT_GAS
HaltsForGas ==
    frame.halt_reason # INSUFFICIENT_GAS /\ frame'.halt_reason = INSUFFICIENT_GAS

\* C38: whenever execute_message returns with halt_reason = INSUFFICIENT_GAS,
\* pc still addresses the opcode whose gas could not be covered: that
\* opcode neither advanced nor redirected pc, JUMP and JUMPI included.
C38_PcAtUnpaidOpcode ==
    [][HaltsForGas => (at' = "returned" /\ frame'.pc = frame.pc)]_vars

\* the indices of the entries the storage plane held when the frame started
EntryIndices == 1..Len(entry.storage)

\* address, key and original of the entries of the start are as at the start
IdentityKept ==
    \A i \in EntryIndices :
        /\ Len(storage) >= i
        /\ storage[i].address = entry.storage[i].address
        /\ storage[i].key = entry.storage[i].key
        /\ storage[i].original = entry.storage[i].original

\* the step dispatches the load ld or the store st on the entry's own
\* (contract, key); a load changes is_warm only, a store value and is_warm
OwnAccess(i, ld, st) ==
    /\ at = "exec"
    /\ opcode \in {ld, st}
    /\ frame.stack_size >= 1
    /\ stack[frame.stack_size] = storage[i].key
    /\ frame.contract = storage[i].address
    /\ opcode = ld => storage'[i] = [storage[i] EXCEPT !.is_warm = 1]
    /\ opcode = st =>
          /\ frame.stack_size >= 2
          /\ storage'[i] = [storage[i] EXCEPT !.is_warm = 1,
                                              !.value = stack[frame.stack_size - 1]]

ChangedOnlyByOwnAccess(ld, st) ==
    \A i \in EntryIndices : storage'[i] # storage[i] => OwnAccess(i, ld, st)

\* C39: for every storage entry that exists when the frame starts, address,
\* key and original are identical on return; only value and is_warm of such
\* an entry can change, and only through SLOAD (0x54: is_warm) and SSTORE
\* (0x55: value, is_warm) of the entry's own (contract, key).
C39_EntriesOfStart ==
    /\ []IdentityKept
    /\ [][ChangedOnlyByOwnAccess(84, 85)]_vars

\* the states the field takes during a call
LifecycleStates ==
    /\ frame.state \in {NOT_STARTED, EXECUTING, COMPLETED_SUCCESS, EXCEPTIONAL_HALT}
    /\ frame.state \notin {SUSPENDED, REVERT}
    /\ frame.state = NOT_STARTED => at = "call"

\* the field changes on entry, and from EXECUTING to one of the two ends
LifecycleStep ==
    frame'.state # frame.state =>
        \/ at = "call" /\ frame'.state = EXECUTING
        \/ /\ frame.state = EXECUTING
           /\ frame'.state \in {COMPLETED_SUCCESS, EXCEPTIONAL_HALT}

LeftExecuting == frame.state \in {COMPLETED_SUCCESS, EXCEPTIONAL_HALT}

\* no fetch, no handler, no pre-execution upcall and no gas deduction
NothingRuns ==
    /\ at \notin {"pre", "exec"}
    /\ at' \notin {"pre", "exec"}
    /\ opcode' = opcode
    /\ log' = log
    /\ trace' # trace => trace'[Len(trace')].ev = "post"
    /\ frame'.gas_remaining = frame.gas_remaining
    /\ frame'.state = frame.state

\* C40: during a call the state field only follows EXECUTING ->
\* COMPLETED_SUCCESS or EXECUTING -> EXCEPTIONAL_HALT, is never SUSPENDED,
\* SUCCESS, REVERT or FAILED, and once it has left EXECUTING no further
\* opcode is fetched, no handler runs, no trace_pre_execution is invoked
\* and no gas is deducted.
C40_Lifecycle ==
    /\ []LifecycleStates
    /\ [][LifecycleStep /\ (LeftExecuting => NothingRuns)]_vars

C40_Witness ==
    /\ Returned
    /\ frame.state = COMPLETED_SUCCESS
    /\ opcode = 0
    /\ frame.pc < frame.code_size
    /\ has_tracer
    /\ Len(trace) >= 4
    /\ LastTrace.ev = "post"
    /\ LastTrace.state = COMPLETED_SUCCESS

====
